---- MODULE Spec2Model ----
(***************************************************************************)
(* NSDotPy: the session object NSSession of src/nsdotpy/session.py.        *)
(*                                                                         *)
(* The model follows the code of the session: the dispatcher request(),    *)
(* the HTML path _html_request() with its in-flight lock and its key wait  *)
(* _wait_for_input(), the extractor _get_auth_values(), the operations     *)
(* built on request(), and the structured-API path api_request() with the  *)
(* rate limiter _wait_for_ratelimit().                                     *)
(*                                                                         *)
(* A caller is a thread of control that invokes methods of one session.    *)
(* Each caller advances one statement group at a time, so that two callers *)
(* interleave wherever the interpreter may switch threads.  The keyboard   *)
(* and the remote server are the environment: key events and responses are *)
(* drawn from small sets.                                                  *)
(***************************************************************************)
EXTENDS Integers, Sequences, FiniteSets, TLC

(***************************************************************************)
(* Bounds of the model.                                                    *)
(***************************************************************************)
\* number of presses of the designated key the environment makes
MaxPresses == 3
\* number of operations started on the session
MaxCalls == 2
\* number of structured-API calls made on the session
MaxApiCalls == 1
MaxCommands == 1
\* largest value of the RateLimit-Remaining header
MaxRemaining == 11
\* largest value of the Retry-After header
MaxRetry == 5

(***************************************************************************)
(* Program constants.                                                      *)
(***************************************************************************)
\* session.py:262  "if requests_left < 10 or constant_rate_limit"
LowWaterMark == 10
\* session.py:278  "if response.status_code >= 400"
ErrorStatus == 400

\* a header or cookie that the response does not carry
Absent == "<absent>"

(***************************************************************************)
(* Strings that the code takes apart (names, URLs) are sequences of        *)
(* characters.  A character is written as a one-letter string; a run of    *)
(* lower-case letters that no operation of the model splits (a host name,  *)
(* a page name) is written as one element.                                 *)
(***************************************************************************)
\* the elements with upper-case letters and their lower-case forms
LowerCase == [c \in {"T", "L", "PAGE=STORE"} |->
                CASE c = "T" -> "t" [] c = "L" -> "l"
                  [] c = "PAGE=STORE" -> "page=store"]

\* str.lower()
lower(s) == [i \in 1..Len(s) |->
               IF s[i] \in DOMAIN LowerCase THEN LowerCase[s[i]] ELSE s[i]]

\* str.strip(): the white space at both ends is removed
RECURSIVE strip(_)
strip(s) == IF s = <<>> THEN s
            ELSE IF Head(s) = " " THEN strip(Tail(s))
            ELSE IF s[Len(s)] = " " THEN strip(SubSeq(s, 1, Len(s) - 1))
            ELSE s

\* str.replace(old, new) for one-character old and new
replace(s, old, new) == [i \in 1..Len(s) |-> IF s[i] = old THEN new ELSE s[i]]

\* canonicalize(string), line 42
canonicalize(s) == replace(strip(lower(s)), " ", "_")

\* needle in s, for a needle of one element
In(needle, s) == \E i \in 1..Len(s) : s[i] = needle

\* soup.find("input", ...) finds no element
NoInput == <<"<noinput>">>
\* the <input> element found has no value attribute
NoValue == <<"<novalue>">>

VARIABLES
    lock,        \* NSSession._lock
    chk,         \* NSSession.chk
    localid,     \* NSSession.localid
    pin,         \* NSSession.pin
    nation,      \* NSSession.nation
    region,      \* NSSession.region
    cookiePin,   \* the "pin" cookie of NSSession._session.cookies
    defaultData, \* the dict that is the default value of request()'s data
    agent,       \* the headers of NSSession._session: User-Agent, and
                 \* X-Password and X-Pin ("" when the header is not set);
                 \* the nations the User-Agent was made of; the User-Agent
                 \* headers and the credential headers that the requests
                 \* sent so far have carried
    keyPressed,  \* the physical state of the designated key
    cycles,      \* completed press-and-release cycles so far
    pc,          \* pc[t]: where caller t stands in the code
    op,          \* op[t]: the operation caller t is running
    stage,       \* stage[t]: 1 in the operation's own request, 2 in its refresh
    arg,         \* arg[t]: the name argument of the operation
    data,        \* data[t]: the dict that is the data of the request
    gate,        \* gate[t]: what the current _wait_for_input call has seen
    userclick,   \* userclick[t]: the local userclick of _html_request
    resp,        \* resp[t]: the response held by the operation
    outcome,     \* outcome[t]: how caller t's last operation ended
    calls,       \* operations started so far
    htmlSent,    \* HTML-protocol requests put on the wire so far
    errorSaved,  \* error.html has been written
    extSent,     \* requests passed through to another host so far
    apiSent,     \* structured-API requests put on the wire so far
    api,         \* the last structured-API call: its inputs and what it did
    cmd          \* the last api_command() call: its arguments, the payloads
                 \* sent, the documents received and what it returned

vars == <<lock, chk, localid, pin, nation, region, cookiePin, defaultData,
          agent, keyPressed,
          cycles, pc, op, stage, arg, data, gate, userclick, resp, outcome,
          calls, htmlSent, errorSaved, extSent, apiSent, api, cmd>>

tokenStore == <<chk, localid, pin>>
sessionState == <<nation, region>>
clientVars == <<cookiePin, defaultData, agent>>
keyboardVars == <<keyPressed, cycles>>
callerVars == <<pc, op, stage, arg, data, gate, userclick, resp, outcome>>
wireVars == <<htmlSent, errorSaved, extSent, apiSent>>

(***************************************************************************)
(* Value sets.                                                             *)
(***************************************************************************)
Callers == {1, 2}
ChkValues == {<<"c", "1">>, <<" ", "c", "2", " ">>}
LocalidValues == {<<"l", "1">>}
PinValues == {"pin1", "pin2"}
Names == {<<"t", "l">>, <<"T", " ", "L">>}
Regions == {<<"r", "w", "b", "y">>, <<"l", "i", "l", "y">>}
\* the region names given to move_to_region()
Targets == {<<"L", "i", "l", "y">>, <<"r", "w", "b", "y">>}

\* a page of the site, and the same path on another host
Site(page) == <<"https://www.", "nationstates", ".net/", page>>
External(page) == <<"https://", "example.org/", page>>
\* a page of another host, with the name of the site in its path
Lookalike(page) == <<"https://", "example.org/", "nationstates", "/", page>>

\* request(), lines 316-322
BannedPages == {"page=telegrams", "page=dilemmas", "page=compose_telegram",
                "page=store", "page=help"}
Pages == BannedPages \cup {"PAGE=STORE", "page=display_region", "api.cgi"}
Urls == {Site(p) : p \in Pages} \cup {External(p) : p \in Pages}
            \cup {Lookalike("page=display_region")}

\* the operations of the session that go through request()
TwoRequestOps == {"join_wa", "change_nation_flag", "add_to_dossier",
                  "refound_nation"}
\* the operations that read the location header of their one response
LocationOps == {"endorse"}
HtmlOps == {"request"} \cup LocationOps \cup TwoRequestOps

\* the page each operation posts to
OpPage(o) ==
    CASE o = "login" -> "page=display_region"
      [] o = "change_nation_flag" -> "cgi-bin/upload.cgi"
      [] o = "change_nation_settings" -> "page=settings"
      [] o = "move_to_region" -> "page=change_region"
      [] o = "join_wa" -> "cgi-bin/join_un.cgi"
      [] o = "endorse" -> "cgi-bin/endorse.cgi"
      [] o = "add_to_dossier" -> "dossier.cgi"
      [] o = "refound_nation" -> "template-overall=none/"

\* a dict that the session sends as the data of a request: its keys, and the
\* values under "chk" and "localid" (empty without these keys); shared tells
\* that the dict is the default value of request()'s data
NoData == [keys |-> {}, chk |-> <<>>, localid |-> <<>>, shared |-> FALSE]

\* the data given to request(): none, so that the default value is used, an
\* empty dict, the dict that refresh_auth_values() gives
Payloads == {"default", "empty", "theme"}
Payload(choice) ==
    CASE choice = "default" -> [defaultData EXCEPT !.shared = TRUE]
      [] choice = "empty" -> NoData
      [] choice = "theme" -> [NoData EXCEPT !.keys = {"theme"}]

\* _html_request(), line 269: data |= {"chk": self.chk, "localid":
\* self.localid} updates the dict that was given, which is the default value
\* of request()'s data when the caller gave none
merge(d) ==
    [d EXCEPT !.keys = d.keys \cup {"chk", "localid"},
              !.chk = chk, !.localid = localid]
NoGate == [held |-> FALSE, down |-> FALSE, press |-> FALSE,
           release |-> FALSE, returned |-> FALSE]

\* key-down transitions of the designated key so far
presses == cycles + (IF keyPressed THEN 1 ELSE 0)

\* time.time() * 1000 as a logical clock: it advances with every key event
time_ms == 1 + presses + cycles

(***************************************************************************)
(* The User-Agent header.  httpx sends the headers of the client with      *)
(* every request of the client.                                            *)
(***************************************************************************)
\* the User-Agent header of an httpx client that was given none
NoAgent == <<"python-httpx">>

SCRIPT_NAME == <<"s">>
SCRIPT_VERSION == <<"1">>
Links == {<<>>, <<"g", "i", "t">>}

\* a faulty variant: the user is left out
set_user_agent_NoUser(script_name, script_version, script_author, script_user, link_to_src) ==
    script_name \o <<"/">> \o script_version \o <<" (by:">>
        \o script_author \o <<")">>
        \o (IF link_to_src # <<>> THEN <<"; src:">> \o link_to_src ELSE <<>>)
        \o <<"; Written with NSDotPy/2.2.1 (by:Sweeze; src:github.com/sw33ze/NSDotPy)">>

\* _set_user_agent(), lines 135-140: the string that line 141 makes the
\* User-Agent header of the client
set_user_agent(script_name, script_version, script_author, script_user, link_to_src) ==
    script_name \o <<"/">> \o script_version \o <<" (by:">>
        \o script_author \o <<"; usedBy:">> \o script_user \o <<")">>
        \o (IF link_to_src # <<>> THEN <<"; src:">> \o link_to_src ELSE <<>>)
        \o <<"; Written with NSDotPy/2.2.1 (by:Sweeze; src:github.com/sw33ze/NSDotPy)">>

\* a session whose __init__ has not run, and the session made for the
\* nation "tl" by that nation
NoSession == [header |-> NoAgent, made |-> <<>>, carried |-> {},
              xpassword |-> "", xpin |-> "", creds |-> {}]
MadeSession ==
    [header |-> set_user_agent(SCRIPT_NAME, SCRIPT_VERSION, <<"t", "l">>,
                               <<"t", "l">>, <<>>),
     made |-> << <<"t", "l">>, <<"t", "l">> >>, carried |-> {},
     xpassword |-> "", xpin |-> "", creds |-> {}]

\* lines 392-395 of api_request(), 435-438 of api_issue() and 483-486 of
\* api_command(): the password and the pin of the session, when there is
\* one, are made headers of the client, where they stay
credentials(h, password, sessionPin) ==
    [h EXCEPT !.xpassword = IF password # "" THEN password ELSE @,
              !.xpin = IF sessionPin # "" THEN sessionPin ELSE @]

\* self._session.post() and self._session.get(): a request of the client
\* goes on the wire to the HTML site ("html"), to the API ("api") or to
\* another host ("external"), with the headers the client has
post(h, to) ==
    [h EXCEPT !.carried = @ \cup {h.header},
              !.creds = @ \cup {[to |-> to, password |-> h.xpassword,
                                 pin |-> h.xpin]}]

Carry(to) == agent' = post(agent, to)

(***************************************************************************)
(* The responses of the site to an HTML-protocol request.                  *)
(*   status    the HTTP status                                             *)
(*   html      the Content-Type starts with text/html                      *)
(*   chk       the value of <input name="chk">, NoInput without the        *)
(*             element, NoValue when the element has no value attribute    *)
(*   localid   the same for <input name="localid">                         *)
(*   setPin    the pin cookie the response sets, or Absent                 *)
(*   standout  the number of <a class="STANDOUT"> elements                 *)
(*   href      the region named by the href of the second of them, in its  *)
(*             canonical form                                              *)
(*   location  the location header: Absent, the operation's success        *)
(*             target ("success") or another target ("other")              *)
(*   nname     the data-nname attribute of <body>: the name of the nation  *)
(*             the page is served to, empty on a page served to nobody     *)
(*   success   the text has the phrase the operation looks for ("Success!" *)
(*             in move_to_region, "Your settings have been successfully    *)
(*             updated." in change_nation_settings)                        *)
(***************************************************************************)
HtmlStatuses == {200, 302, 404}
Locations == {Absent, "success", "other"}
HtmlResponses ==
    [status : HtmlStatuses, html : BOOLEAN,
     chk : ChkValues \cup {NoInput, NoValue},
     localid : LocalidValues \cup {NoInput, NoValue},
     setPin : PinValues \cup {Absent},
     standout : 0..2, href : Regions, location : Locations,
     nname : {canonicalize(n) : n \in Names} \cup {<<>>},
     success : BOOLEAN]

\* self._auth_region, line 86
AuthRegion == <<"r", "w", "b", "y">>

\* no response
NoResp == [status |-> 0, html |-> FALSE, chk |-> NoInput, localid |-> NoInput,
           setPin |-> Absent, standout |-> 0, href |-> AuthRegion,
           location |-> Absent, nname |-> <<>>, success |-> FALSE]

\* the response as the model keeps it for the code that runs after
\* _html_request(): the fields that this code reads
Held(r, fields) ==
    [f \in DOMAIN r |-> IF f \in fields THEN r[f] ELSE NoResp[f]]

\* the fields of the response that the operations read
OpFields == {"status", "location", "nname", "success"}

\* the responses of the pages the operations meet: a page carries both
\* token fields or neither, it sets the pin cookie of the session or none,
\* its links are those of the site's banner, and
\* it has none of the marks that login, move_to_region and
\* change_nation_settings look for
CoreResponses ==
    {[status |-> st, html |-> h,
      chk |-> IF tokens THEN <<"c", "1">> ELSE NoInput,
      localid |-> IF tokens THEN <<"l", "1">> ELSE NoInput,
      setPin |-> IF cookie THEN "pin1" ELSE Absent,
      standout |-> IF link = <<>> THEN 0 ELSE 2,
      href |-> IF link = <<>> THEN AuthRegion ELSE link,
      location |-> l, nname |-> <<>>, success |-> FALSE] :
        st \in HtmlStatuses, h \in BOOLEAN, tokens \in BOOLEAN,
        cookie \in BOOLEAN, link \in Regions \cup {<<>>}, l \in Locations}

\* the pages that the extractor may be given: every combination of token
\* fields, pin cookie and region links on a page with a success status,
\* served to a nation or to nobody
ExtractResponses ==
    {[status |-> 200, html |-> h, chk |-> c, localid |-> l, setPin |-> p,
      standout |-> k, href |-> AuthRegion, location |-> Absent,
      nname |-> n, success |-> FALSE] :
        h \in BOOLEAN, c \in ChkValues \cup {NoInput, NoValue},
        l \in LocalidValues \cup {NoInput, NoValue},
        p \in {"pin1", Absent}, k \in 0..2,
        n \in {<<>>, <<"t", "l">>}}

\* the fields of the response that tell what the extractor was given
ExtractFields == {"html", "chk", "localid", "setPin", "nname"}

\* a faulty variant: a token already in the store is kept (merge, not overwrite)
get_auth_values_KeepFirst(r, jar) ==
    LET old == [chk |-> chk, localid |-> localid, pin |-> pin,
                region |-> region, raised |-> ""]
    IN  IF ~r.html THEN old
        ELSE IF r.chk = NoValue THEN [old EXCEPT !.raised = "KeyError"]
        ELSE LET a == IF r.chk # NoInput /\ chk = <<>>
                      THEN [old EXCEPT !.chk = strip(r.chk)] ELSE old
        IN  IF r.localid = NoValue THEN [a EXCEPT !.raised = "KeyError"]
        ELSE LET b == IF r.localid # NoInput /\ localid = <<>>
                      THEN [a EXCEPT !.localid = strip(r.localid)] ELSE a
                 c == IF jar # "" THEN [b EXCEPT !.pin = jar] ELSE b
        IN  IF r.standout = 0 THEN c
            ELSE IF r.standout = 1 THEN [c EXCEPT !.raised = "IndexError"]
            ELSE [c EXCEPT !.region = canonicalize(r.href)]

\* a faulty variant: the content type of the response is not looked at
get_auth_values_AnyType(r, jar) ==
    LET old == [chk |-> chk, localid |-> localid, pin |-> pin,
                region |-> region, raised |-> ""]
    IN  IF r.chk = NoValue THEN [old EXCEPT !.raised = "KeyError"]
        ELSE LET a == IF r.chk # NoInput
                      THEN [old EXCEPT !.chk = strip(r.chk)] ELSE old
        IN  IF r.localid = NoValue THEN [a EXCEPT !.raised = "KeyError"]
        ELSE LET b == IF r.localid # NoInput
                      THEN [a EXCEPT !.localid = strip(r.localid)] ELSE a
                 c == IF jar # "" THEN [b EXCEPT !.pin = jar] ELSE b
        IN  IF r.standout = 0 THEN c
            ELSE IF r.standout = 1 THEN [c EXCEPT !.raised = "IndexError"]
            ELSE [c EXCEPT !.region = canonicalize(r.href)]

\* _get_auth_values(response): the token store and the region after it, and
\* the exception it ends with ("" when it returns).  jar is the pin cookie
\* of the client after the response.
get_auth_values(r, jar) ==
    LET old == [chk |-> chk, localid |-> localid, pin |-> pin,
                region |-> region, raised |-> ""]
    IN  IF ~r.html THEN old
        ELSE IF r.chk = NoValue THEN [old EXCEPT !.raised = "KeyError"]
        ELSE LET a == IF r.chk # NoInput
                      THEN [old EXCEPT !.chk = strip(r.chk)] ELSE old
        IN  IF r.localid = NoValue THEN [a EXCEPT !.raised = "KeyError"]
        ELSE LET b == IF r.localid # NoInput
                      THEN [a EXCEPT !.localid = strip(r.localid)] ELSE a
                 c == IF jar # "" THEN [b EXCEPT !.pin = jar] ELSE b
        IN  IF r.standout = 0 THEN c
            ELSE IF r.standout = 1 THEN [c EXCEPT !.raised = "IndexError"]
            ELSE [c EXCEPT !.region = canonicalize(r.href)]

(***************************************************************************)
(* The designated key.  A held key repeats: the operating system delivers  *)
(* further key-down events for it, and keyboard.wait() returns on any      *)
(* key-down event delivered after it was called.  gate[t] records, for the *)
(* _wait_for_input call of caller t:                                       *)
(*   held      the key was pressed when the call began                     *)
(*   down      a key-down event has been delivered to keyboard.wait()      *)
(*   press     the key has gone from released to pressed since the call    *)
(*   release   the key has gone from pressed to released after the         *)
(*             key-down event                                              *)
(*   returned  the call has returned                                       *)
(***************************************************************************)
Waiting(t) == pc[t] = "wait"

KeyPress ==
    /\ ~keyPressed
    /\ presses < MaxPresses
    /\ keyPressed' = TRUE
    /\ gate' = [t \in Callers |->
                  IF Waiting(t)
                  THEN [gate[t] EXCEPT !.down = TRUE, !.press = TRUE]
                  ELSE gate[t]]
    /\ UNCHANGED <<lock, tokenStore, sessionState, clientVars, cycles, pc, op,
                   stage, arg, data, userclick, resp, outcome, calls,
                   wireVars, api, cmd>>

KeyRepeat ==
    /\ keyPressed
    /\ \E t \in Callers : Waiting(t) /\ ~gate[t].down
    /\ gate' = [t \in Callers |->
                  IF Waiting(t) THEN [gate[t] EXCEPT !.down = TRUE]
                  ELSE gate[t]]
    /\ UNCHANGED <<lock, tokenStore, sessionState, clientVars, keyboardVars,
                   pc, op, stage, arg, data, userclick, resp, outcome, calls,
                   wireVars, api, cmd>>

KeyRelease ==
    /\ keyPressed
    /\ keyPressed' = FALSE
    /\ cycles' = cycles + 1
    /\ gate' = [t \in Callers |->
                  IF Waiting(t) /\ gate[t].down
                  THEN [gate[t] EXCEPT !.release = TRUE]
                  ELSE gate[t]]
    /\ UNCHANGED <<lock, tokenStore, sessionState, clientVars, pc, op,
                   stage, arg, data, userclick, resp, outcome, calls,
                   wireVars, api, cmd>>

(***************************************************************************)
(* An operation ends: with a result, or with the exception that leaves it. *)
(* An exception propagates to the caller through every frame; none of the  *)
(* frames catches it or has a finally clause.                              *)
(***************************************************************************)
Finish(t, how) ==
    /\ pc' = [pc EXCEPT ![t] = "idle"]
    /\ outcome' = [outcome EXCEPT ![t] = how]
    /\ resp' = [resp EXCEPT ![t] = NoResp]
    /\ data' = [data EXCEPT ![t] = NoData]
    /\ userclick' = [userclick EXCEPT ![t] = 0]

(***************************************************************************)
(* change_nation_settings() and the validator _validate_fields().          *)
(***************************************************************************)
\* the string of n characters c
Rep(c, n) == [i \in 1..n |-> c]

\* max_lengths, lines 230-238
max_lengths ==
    [pretitle |-> 28, slogan |-> 55, currency |-> 40, animal |-> 40,
     demonym_noun |-> 44, demonym_adjective |-> 44, demonym_plural |-> 44]

\* the length-limited keyword arguments of change_nation_settings()
SettingNames == DOMAIN max_lengths

\* str.isalnum(): the string is not empty and has letters and digits only
isalnum(s) ==
    s # <<>> /\ \A i \in 1..Len(s) : s[i] \notin {" ", "_", "!"}

\* str.replace(old, "")
remove(s, old) == SelectSeq(s, LAMBDA c : c # old)

\* the calls of change_nation_settings(): one keyword argument is given, the
\* others are left empty.  The values are too short, of the least and of
\* the greatest length allowed, and too long; the pretitle may also have a
\* space or a character that is not alphanumeric.
SettingValues(name) ==
    {Rep("a", n) : n \in {1, 2, max_lengths[name], max_lengths[name] + 1}}
    \cup (IF name = "pretitle" THEN {<<"a", " ", "b">>, <<"a", "!">>} ELSE {})
Settings ==
    UNION {{[n \in SettingNames |-> IF n = name THEN v ELSE <<>>] :
               v \in SettingValues(name)} : name \in SettingNames}

\* change_nation_settings(), lines 706-720: the payload built from the
\* keyword arguments, without the keys that have empty values
SettingsData(a) ==
    LET all == [k \in {"type", "slogan", "currency", "animal", "demonym2",
                       "demonym", "demonym2pl", "update"} |->
                  CASE k = "type" -> a.pretitle
                    [] k = "slogan" -> a.slogan
                    [] k = "currency" -> a.currency
                    [] k = "animal" -> a.animal
                    [] k = "demonym2" -> a.demonym_noun
                    [] k = "demonym" -> a.demonym_adjective
                    [] k = "demonym2pl" -> a.demonym_plural
                    [] k = "update" -> <<" ", "U", "p", "d", "a", "t", "e", " ">>]
    IN  [k \in {k \in DOMAIN all : all[k] # <<>>} |-> all[k]]

\* _validate_fields(data), lines 241-252: it raises ValueError
validate_fields(d) ==
    \E key \in DOMAIN d :
        /\ key \in DOMAIN max_lengths
        /\ \/ Len(d[key]) > max_lengths[key]
           \/ Len(d[key]) < 2 /\ key # "slogan"
           \/ key = "pretitle" /\ ~isalnum(remove(d[key], " "))

\* a caller starts one of the operations: the code of the operation runs up
\* to its call of request()
Call(t, ops, urls, payloads) ==
    /\ pc[t] = "idle"
    /\ calls < MaxCalls
    /\ calls' = calls + 1
    /\ \E o \in ops :
          /\ op' = [op EXCEPT ![t] = o]
          /\ \E n \in CASE o \in {"refound_nation", "login", "endorse"} -> Names
                       [] o = "move_to_region" -> Targets
                       [] o = "change_nation_settings" -> Settings
                       [] o = "request" -> urls
                       [] OTHER -> {<<>>} :
                /\ arg' = [arg EXCEPT ![t] = n]
                /\ \E choice \in IF o = "request" THEN payloads
                                  ELSE {"empty"} :
                      data' = [data EXCEPT ![t] = Payload(choice)]
                /\ IF o = "change_nation_settings"
                      /\ validate_fields(SettingsData(n))
                   THEN /\ pc' = [pc EXCEPT ![t] = "idle"]
                        /\ outcome' = [outcome EXCEPT ![t] = "ValueError"]
                   ELSE /\ pc' = [pc EXCEPT ![t] = "request"]
                        /\ outcome' = [outcome EXCEPT ![t] = "none"]
    /\ stage' = [stage EXCEPT ![t] = 1]
    /\ UNCHANGED <<lock, tokenStore, sessionState, clientVars, keyboardVars,
                   gate, userclick, resp, wireVars, api, cmd>>

\* the URL that caller t hands to request(): the URL given by the caller of
\* request(), the page of the operation, or the page of refresh_auth_values()
UrlOf(t) ==
    IF stage[t] = 2 THEN Site("page=display_region")
    ELSE IF op[t] = "request" THEN arg[t]
    ELSE Site(OpPage(op[t]))

\* request(), lines 343-347: the request is passed through to the other
\* host and its response is returned
PassThrough(t) ==
    /\ extSent' = extSent + 1
    /\ Carry("external")
    /\ pc' = [pc EXCEPT ![t] = "returned"]
    /\ \E st \in HtmlStatuses :
          resp' = [resp EXCEPT ![t] = [NoResp EXCEPT !.status = st]]
    /\ UNCHANGED <<outcome, data, userclick>>

\* a faulty variant: the lock is not looked at
RequestCheck_NoLockCheck(t) ==
    /\ pc[t] = "request"
    /\ LET url == canonicalize(UrlOf(t))
       IN  IF \E banned_page \in BannedPages : In(banned_page, url)
           THEN Finish(t, "ValueError") /\ UNCHANGED <<extSent, agent>>
           ELSE IF In("api.cgi", url)
           THEN Finish(t, "ValueError") /\ UNCHANGED <<extSent, agent>>
           ELSE IF In("nationstates", url)
           THEN /\ pc' = [pc EXCEPT ![t] = "passed"]
                /\ UNCHANGED <<outcome, resp, data, userclick, extSent,
                                  agent>>
           ELSE PassThrough(t)
    /\ UNCHANGED <<lock, tokenStore, sessionState, cookiePin, defaultData, keyboardVars,
                   op, stage, arg, gate, calls, htmlSent, errorSaved, apiSent,
                   api, cmd>>

\* a faulty variant: the URL is classified first, the banned pages are looked for
\* on the HTML path only
RequestCheck_ClassifyFirst(t) ==
    /\ pc[t] = "request"
    /\ LET url == canonicalize(UrlOf(t))
       IN  IF In("api.cgi", url)
           THEN Finish(t, "ValueError") /\ UNCHANGED <<extSent, agent>>
           ELSE IF In("nationstates", url)
           THEN IF \E banned_page \in BannedPages : In(banned_page, url)
                THEN Finish(t, "ValueError") /\ UNCHANGED <<extSent, agent>>
                ELSE IF lock
                THEN Finish(t, "PermissionError") /\ UNCHANGED <<extSent, agent>>
                ELSE /\ pc' = [pc EXCEPT ![t] = "passed"]
                     /\ UNCHANGED <<outcome, resp, data, userclick, extSent,
                                  agent>>
           ELSE PassThrough(t)
    /\ UNCHANGED <<lock, tokenStore, sessionState, cookiePin, defaultData, keyboardVars,
                   op, stage, arg, gate, calls, htmlSent, errorSaved, apiSent,
                   api, cmd>>

\* request(), lines 314-347: a URL of a banned page is refused, then a URL
\* of the API; a URL with the site's name takes the HTML path, where the
\* call is refused when the lock is held; any other URL is passed through
RequestCheck(t) ==
    /\ pc[t] = "request"
    /\ LET url == canonicalize(UrlOf(t))
       IN  IF \E banned_page \in BannedPages : In(banned_page, url)
           THEN Finish(t, "ValueError") /\ UNCHANGED <<extSent, agent>>
           ELSE IF In("api.cgi", url)
           THEN Finish(t, "ValueError") /\ UNCHANGED <<extSent, agent>>
           ELSE IF In("nationstates", url)
           THEN IF lock
                THEN Finish(t, "PermissionError") /\ UNCHANGED <<extSent, agent>>
                ELSE /\ pc' = [pc EXCEPT ![t] = "passed"]
                     /\ UNCHANGED <<outcome, resp, data, userclick, extSent,
                                  agent>>
           ELSE PassThrough(t)
    /\ UNCHANGED <<lock, tokenStore, sessionState, cookiePin, defaultData, keyboardVars,
                   op, stage, arg, gate, calls, htmlSent, errorSaved, apiSent,
                   api, cmd>>

\* request(), line 339: self._lock = True
SetLock(t) ==
    /\ pc[t] = "passed"
    /\ lock' = TRUE
    /\ pc' = [pc EXCEPT ![t] = "locked"]
    /\ UNCHANGED <<tokenStore, sessionState, clientVars, keyboardVars, op,
                   stage, arg, data, gate, userclick, resp, outcome, calls,
                   wireVars, api, cmd>>

\* a faulty variant: the request is sent without a call of _wait_for_input()
HtmlBegin_NoWait(t) ==
    /\ pc[t] = "locked"
    /\ data' = [data EXCEPT ![t] = merge(data[t])]
    /\ defaultData' = IF data[t].shared
                      THEN [merge(data[t]) EXCEPT !.shared = FALSE]
                      ELSE defaultData
    /\ userclick' = [userclick EXCEPT ![t] = time_ms]
    /\ pc' = [pc EXCEPT ![t] = "post"]
    /\ UNCHANGED <<lock, tokenStore, sessionState, cookiePin, agent,
                   keyboardVars, op, stage, arg, gate, resp, outcome, calls,
                   wireVars, api, cmd>>

\* _html_request(), lines 269-270: the tokens are merged into the payload
\* and _wait_for_input() calls keyboard.wait()
HtmlBegin(t) ==
    /\ pc[t] = "locked"
    /\ data' = [data EXCEPT ![t] = merge(data[t])]
    /\ defaultData' = IF data[t].shared
                      THEN [merge(data[t]) EXCEPT !.shared = FALSE]
                      ELSE defaultData
    /\ gate' = [gate EXCEPT ![t] = [NoGate EXCEPT !.held = keyPressed]]
    /\ pc' = [pc EXCEPT ![t] = "wait"]
    /\ UNCHANGED <<lock, tokenStore, sessionState, cookiePin, agent,
                   keyboardVars,
                   op, stage, arg, userclick, resp, outcome, calls, wireVars,
                   api, cmd>>

\* a faulty variant: no loop on keyboard.is_pressed(): the call returns on key-down
WaitReturn_NoDebounce(t) ==
    /\ pc[t] = "wait"
    /\ gate[t].down
    /\ userclick' = [userclick EXCEPT ![t] = time_ms]
    /\ gate' = [gate EXCEPT ![t].returned = TRUE]
    /\ pc' = [pc EXCEPT ![t] = "post"]
    /\ UNCHANGED <<lock, tokenStore, sessionState, clientVars, keyboardVars,
                   op, stage, arg, data, resp, outcome, calls, wireVars, api, cmd>>

\* _wait_for_input(), lines 209-214: keyboard.wait() has returned on a
\* key-down event, the loop has seen the key not pressed, the time is read
WaitReturn(t) ==
    /\ pc[t] = "wait"
    /\ gate[t].down
    /\ ~keyPressed
    /\ userclick' = [userclick EXCEPT ![t] = time_ms]
    /\ gate' = [gate EXCEPT ![t].returned = TRUE]
    /\ pc' = [pc EXCEPT ![t] = "post"]
    /\ UNCHANGED <<lock, tokenStore, sessionState, clientVars, keyboardVars,
                   op, stage, arg, data, resp, outcome, calls, wireVars, api, cmd>>

\* _html_request(), lines 272-277: the request goes on the wire
Send(t) ==
    /\ pc[t] = "post"
    /\ htmlSent' = htmlSent + 1
    /\ gate' = [gate EXCEPT ![t] = NoGate]
    /\ pc' = [pc EXCEPT ![t] = "sent"]
    /\ Carry("html")
    /\ UNCHANGED <<lock, tokenStore, sessionState, cookiePin, defaultData,
                   keyboardVars,
                   op, stage, arg, data, userclick, resp, outcome, calls,
                   errorSaved, extSent, apiSent, api, cmd>>

\* the transport fails (a timeout, a broken connection): post() raises
TransportFailure(t) ==
    /\ pc[t] = "sent"
    /\ Finish(t, "TransportError")
    /\ UNCHANGED <<lock, tokenStore, sessionState, clientVars, keyboardVars,
                   op, stage, arg, gate, calls, wireVars, api, cmd>>

\* a faulty variant: the extractor runs before the status is looked at
Respond_ExtractFirst(t, responses, fields) ==
    /\ pc[t] = "sent"
    /\ \E r \in responses :
         LET jar == IF r.setPin # Absent THEN r.setPin ELSE cookiePin
             v == get_auth_values(r, jar)
         IN  /\ cookiePin' = jar
             /\ IF r.status >= ErrorStatus
                THEN /\ errorSaved' = TRUE
                     /\ Finish(t, "HTTPError")
                     /\ chk' = v.chk
                     /\ localid' = v.localid
                     /\ pin' = v.pin
                     /\ region' = v.region
                ELSE /\ errorSaved' = errorSaved
                     /\ chk' = v.chk
                     /\ localid' = v.localid
                     /\ pin' = v.pin
                     /\ region' = v.region
                     /\ IF v.raised # ""
                        THEN Finish(t, v.raised)
                        ELSE /\ pc' = [pc EXCEPT ![t] = "unlock"]
                             /\ resp' = [resp EXCEPT ![t] =
                                   IF stage[t] = 1 THEN Held(r, fields)
                                   ELSE resp[t]]
                             /\ data' = [data EXCEPT ![t] = NoData]
                             /\ userclick' = [userclick EXCEPT ![t] = 0]
                             /\ UNCHANGED outcome
    /\ UNCHANGED <<lock, nation, defaultData, agent, keyboardVars, op, stage, arg,
                   gate, calls, htmlSent, extSent, apiSent, api, cmd>>

\* _html_request(), lines 278-285: the response arrives; an error status
\* is saved and raised, otherwise the extractor runs and the response is
\* returned to request()
Respond(t, responses, fields) ==
    /\ pc[t] = "sent"
    /\ \E r \in responses :
         LET jar == IF r.setPin # Absent THEN r.setPin ELSE cookiePin
             v == get_auth_values(r, jar)
         IN  /\ cookiePin' = jar
             /\ IF r.status >= ErrorStatus
                THEN /\ errorSaved' = TRUE
                     /\ Finish(t, "HTTPError")
                     /\ UNCHANGED <<tokenStore, region>>
                ELSE /\ errorSaved' = errorSaved
                     /\ chk' = v.chk
                     /\ localid' = v.localid
                     /\ pin' = v.pin
                     /\ region' = v.region
                     /\ IF v.raised # ""
                        THEN Finish(t, v.raised)
                        ELSE /\ pc' = [pc EXCEPT ![t] = "unlock"]
                             /\ resp' = [resp EXCEPT ![t] =
                                   IF stage[t] = 1 THEN Held(r, fields)
                                   ELSE resp[t]]
                             /\ data' = [data EXCEPT ![t] = NoData]
                             /\ userclick' = [userclick EXCEPT ![t] = 0]
                             /\ UNCHANGED outcome
    /\ UNCHANGED <<lock, nation, defaultData, agent, keyboardVars, op, stage, arg,
                   gate, calls, htmlSent, extSent, apiSent, api, cmd>>

\* a faulty variant: request() returns with the lock still set
Unlock_KeepLock(t) ==
    /\ pc[t] = "unlock"
    /\ pc' = [pc EXCEPT ![t] = "returned"]
    /\ UNCHANGED <<lock, tokenStore, sessionState, clientVars, keyboardVars,
                   op, stage, arg, data, gate, userclick, resp, outcome,
                   calls, wireVars, api, cmd>>

\* request(), lines 341 and 347: self._lock = False; return response
Unlock(t) ==
    /\ pc[t] = "unlock"
    /\ lock' = FALSE
    /\ pc' = [pc EXCEPT ![t] = "returned"]
    /\ UNCHANGED <<tokenStore, sessionState, clientVars, keyboardVars, op,
                   stage, arg, data, gate, userclick, resp, outcome, calls,
                   wireVars, api, cmd>>

\* refresh_auth_values(), lines 291-294: the operation starts its second
\* request
Refresh(t) ==
    /\ stage' = [stage EXCEPT ![t] = 2]
    /\ pc' = [pc EXCEPT ![t] = "request"]
    /\ data' = [data EXCEPT ![t] = Payload("theme")]
    /\ UNCHANGED <<outcome, resp, userclick>>

\* a faulty variant: the name is stored as it was given
login_RawName(r, name) ==
    IF r.nname # canonicalize(name)
    THEN [nation |-> nation, result |-> "false"]
    ELSE [nation |-> name, result |-> "true"]

\* login(), lines 630-636, after request() has returned the response r: the
\* <body> of the page names the nation or not; the nation of the session
\* and the result
login(r, name) ==
    IF r.nname # canonicalize(name)
    THEN [nation |-> nation, result |-> "false"]
    ELSE [nation |-> canonicalize(name), result |-> "true"]

\* a faulty variant: the region is left as the extractor derived it
move_to_region_KeepExtracted(r, target) ==
    IF r.success
    THEN [region |-> region, result |-> "true"]
    ELSE [region |-> region, result |-> "false"]

\* move_to_region(), lines 745-748, after request() has returned the
\* response r: "Success!" is in the text or not; the region of the session
\* and the result
move_to_region(r, target) ==
    IF r.success
    THEN [region |-> canonicalize(target), result |-> "true"]
    ELSE [region |-> region, result |-> "false"]

\* the operation goes on after request() has returned the response
Continue(t) ==
    /\ pc[t] = "returned"
    /\ LET r == resp[t]
           o == op[t]
           same == UNCHANGED <<stage, nation, region>>
       IN  IF stage[t] = 1
           THEN CASE o = "request" ->
                       Finish(t, "ok") /\ same
                  [] o \in {"join_wa", "change_nation_flag"} ->
                       \* "..." in response.headers["location"]
                       IF r.location = Absent
                       THEN Finish(t, "KeyError") /\ same
                       ELSE IF r.location = "success"
                       THEN Refresh(t) /\ UNCHANGED <<nation, region>>
                       ELSE Finish(t, "false") /\ same
                  [] o = "endorse" ->
                       \* line 851
                       IF r.location = Absent
                       THEN Finish(t, "KeyError") /\ same
                       ELSE Finish(t, IF r.location = "success"
                                      THEN "true" ELSE "false") /\ same
                  [] o = "add_to_dossier" ->
                       Refresh(t) /\ UNCHANGED <<nation, region>>
                  [] o = "refound_nation" ->
                       IF r.status = 302
                       THEN Refresh(t) /\ nation' = arg[t] /\ UNCHANGED region
                       ELSE Finish(t, "false") /\ same
                  [] o = "login" ->
                       /\ nation' = login(r, arg[t]).nation
                       /\ Finish(t, login(r, arg[t]).result)
                       /\ UNCHANGED <<stage, region>>
                  [] o = "move_to_region" ->
                       /\ region' = move_to_region(r, arg[t]).region
                       /\ Finish(t, move_to_region(r, arg[t]).result)
                       /\ UNCHANGED <<stage, nation>>
                  [] o = "change_nation_settings" ->
                       \* line 725
                       Finish(t, IF r.success THEN "true" ELSE "false") /\ same
           \* refresh_auth_values() has returned: its second extraction from
           \* the response of its request assigns what the first assigned
           ELSE /\ IF o = "add_to_dossier"
                   THEN IF r.location = Absent
                        THEN Finish(t, "KeyError")
                        ELSE Finish(t, IF r.location = "success"
                                       THEN "true" ELSE "false")
                   ELSE Finish(t, "true")
                /\ same
    /\ UNCHANGED <<lock, tokenStore, clientVars, keyboardVars, op, arg, gate,
                   calls, wireVars, api, cmd>>

(***************************************************************************)
(* The structured-API path.                                                *)
(*                                                                         *)
(* A header value is a string of decimal digits, here a sequence of the    *)
(* digits' values; int() reads it.  The headers of a response are a        *)
(* mapping from the names it carries to their values.  The API sends the   *)
(* RateLimit-Remaining and RateLimit-Reset headers with every response,    *)
(* Retry-After and X-Pin with some.                                        *)
(***************************************************************************)
RECURSIVE str(_)
str(n) == IF n < 10 THEN <<n>> ELSE Append(str(n \div 10), n % 10)

RECURSIVE int(_)
int(s) == IF Len(s) = 1 THEN s[1]
          ELSE 10 * int(SubSeq(s, 1, Len(s) - 1)) + s[Len(s)]

ResetValues == {10, 30}
ApiStatuses == {200, 429}

Headers(retry, remaining, reset, xpin) ==
    [n \in {"RateLimit-Remaining", "RateLimit-Reset"}
           \cup (IF retry = {} THEN {} ELSE {"Retry-After"})
           \cup (IF xpin = {} THEN {} ELSE {"X-Pin"}) |->
       CASE n = "RateLimit-Remaining" -> str(remaining)
         [] n = "RateLimit-Reset" -> str(reset)
         [] n = "Retry-After" -> str(CHOOSE x \in retry : TRUE)
         [] n = "X-Pin" -> CHOOSE x \in xpin : TRUE]

\* the header mappings of the responses: a header that may be missing is
\* given as the empty set or as the singleton of its value
ApiHeads ==
    {Headers(retry, remaining, reset, xpin) :
        retry \in {{}} \cup {{x} : x \in 0..MaxRetry},
        remaining \in 0..MaxRemaining,
        reset \in ResetValues,
        xpin \in {{}} \cup {{x} : x \in PinValues}}

\* name in head
Has(head, name) == name \in DOMAIN head

\* a sleep of num/den seconds: time.sleep() is given an int, or the float
\* that the true division of two ints yields
Seconds(num, den) == [num |-> num, den |-> den]

\* a faulty variant: a response without X-Pin clears the pin
wait_for_ratelimit_ForgetPin(head, constant_rate_limit) ==
    LET newPin == IF Has(head, "X-Pin") THEN head["X-Pin"] ELSE ""
        first == IF Has(head, "Retry-After") /\ head["Retry-After"] # <<>>
                 THEN <<Seconds(int(head["Retry-After"]), 1)>>
                 ELSE <<>>
        requests_left == int(head["RateLimit-Remaining"])
        seconds_until_reset == int(head["RateLimit-Reset"])
    IN  IF requests_left < LowWaterMark \/ constant_rate_limit
        THEN IF requests_left = 0
             THEN [pin |-> newPin, sleeps |-> first,
                   raised |-> "ZeroDivisionError"]
             ELSE [pin |-> newPin,
                   sleeps |-> Append(first,
                                Seconds(seconds_until_reset, requests_left)),
                   raised |-> ""]
        ELSE [pin |-> newPin, sleeps |-> first, raised |-> ""]

\* a faulty variant: the low-water mark is compared with <=
wait_for_ratelimit_OffByOne(head, constant_rate_limit) ==
    LET newPin == IF Has(head, "X-Pin") THEN head["X-Pin"] ELSE pin
        first == IF Has(head, "Retry-After") /\ head["Retry-After"] # <<>>
                 THEN <<Seconds(int(head["Retry-After"]), 1)>>
                 ELSE <<>>
        requests_left == int(head["RateLimit-Remaining"])
        seconds_until_reset == int(head["RateLimit-Reset"])
    IN  IF requests_left <= LowWaterMark \/ constant_rate_limit
        THEN IF requests_left = 0
             THEN [pin |-> newPin, sleeps |-> first,
                   raised |-> "ZeroDivisionError"]
             ELSE [pin |-> newPin,
                   sleeps |-> Append(first,
                                Seconds(seconds_until_reset, requests_left)),
                   raised |-> ""]
        ELSE [pin |-> newPin, sleeps |-> first, raised |-> ""]

\* a faulty variant: the paced sleep replaces the Retry-After sleep (if / elif)
wait_for_ratelimit_Elif(head, constant_rate_limit) ==
    LET newPin == IF Has(head, "X-Pin") THEN head["X-Pin"] ELSE pin
        first == IF Has(head, "Retry-After") /\ head["Retry-After"] # <<>>
                 THEN <<Seconds(int(head["Retry-After"]), 1)>>
                 ELSE <<>>
        requests_left == int(head["RateLimit-Remaining"])
        seconds_until_reset == int(head["RateLimit-Reset"])
    IN  IF requests_left < LowWaterMark \/ constant_rate_limit
        THEN IF requests_left = 0
             THEN [pin |-> newPin, sleeps |-> <<>>,
                   raised |-> "ZeroDivisionError"]
             ELSE [pin |-> newPin,
                   sleeps |-> <<Seconds(seconds_until_reset, requests_left)>>,
                   raised |-> ""]
        ELSE [pin |-> newPin, sleeps |-> first, raised |-> ""]

\* _wait_for_ratelimit(head, constant_rate_limit), lines 254-264: the pin
\* after it, the sleeps it made in order, the exception it ends with
wait_for_ratelimit(head, constant_rate_limit) ==
    LET newPin == IF Has(head, "X-Pin") THEN head["X-Pin"] ELSE pin
        first == IF Has(head, "Retry-After") /\ head["Retry-After"] # <<>>
                 THEN <<Seconds(int(head["Retry-After"]), 1)>>
                 ELSE <<>>
        requests_left == int(head["RateLimit-Remaining"])
        seconds_until_reset == int(head["RateLimit-Reset"])
    IN  IF requests_left < LowWaterMark \/ constant_rate_limit
        THEN IF requests_left = 0
             THEN [pin |-> newPin, sleeps |-> first,
                   raised |-> "ZeroDivisionError"]
             ELSE [pin |-> newPin,
                   sleeps |-> Append(first,
                                Seconds(seconds_until_reset, requests_left)),
                   raised |-> ""]
        ELSE [pin |-> newPin, sleeps |-> first, raised |-> ""]

\* response.raise_for_status(): a status that is not a success raises
raise_for_status(status) == status < 200 \/ status >= 300

\* a faulty variant: the status is checked before the rate limiter runs
api_response_StatusFirst(head, constant_rate_limit, status) ==
    LET w == wait_for_ratelimit(head, constant_rate_limit)
    IN  IF raise_for_status(status)
        THEN [pin |-> pin, sleeps |-> <<>>, raised |-> "HTTPStatusError"]
        ELSE [pin |-> w.pin, sleeps |-> w.sleeps, raised |-> w.raised]

\* lines 399-400 of api_request(), 442-443 of api_issue() and 491-492 of
\* api_command(): the rate limiter runs on the headers of the response, and
\* after it the status is checked.  The pin and the sleeps are those of the
\* rate limiter; the exception is the limiter's, or that of the status
api_response(head, constant_rate_limit, status) ==
    LET w == wait_for_ratelimit(head, constant_rate_limit)
    IN  [pin |-> w.pin, sleeps |-> w.sleeps,
         raised |-> IF w.raised # "" THEN w.raised
                    ELSE IF raise_for_status(status) THEN "HTTPStatusError"
                    ELSE ""]

\* the shards that each API may be asked for (valid.py): names of shards
NATION_SHARDS == {"name", "region"}
PRIVATE_NATION_SHARDS == {"ping"}
REGION_SHARDS == {"name", "numnations"}
\* valid.WORLD_SHARDS: the shards that the world API may be asked for
WORLD_SHARDS == {"nations"}
WA_SHARDS == {"numnations"}

\* the shard argument of api_request(): a str, or a set of str.  names is
\* the set that line 381 makes of a str, or the set that was given
Str(name) == [isStr |-> TRUE, names |-> {name}]
SetOf(names) == [isStr |-> FALSE, names |-> names]
\* not shard: the str is empty, the set is empty
empty(shard) == IF shard.isStr THEN shard.names = {""} ELSE shard.names = {}

\* the shard arguments: none (the default ""), an empty set, a shard of the
\* world and of regions, a shard of nations and regions, an unknown shard,
\* two shards of nations, a shard of nations with an unknown one
ShardArgs ==
    {Str(""), SetOf({}), Str("nations"), Str("name"), Str("bogus"),
     SetOf({"name", "region"}), SetOf({"name", "bogus"})}

\* the arguments of api_request(): api, target, shard, password,
\* constant_rate_limit
ApiArgs ==
    [api : {"nation", "region", "world", "wa", "telegrams"},
     target : {<<>>, <<"t", "l">>},
     shard : ShardArgs,
     password : {"", "hunter2"},
     constant_rate_limit : BOOLEAN]

\* api_request("world", shard="nations"), line 152, and the same call with
\* constant_rate_limit=True
WorldCall ==
    [api |-> "world", target |-> <<>>, shard |-> Str("nations"),
     password |-> "", constant_rate_limit |-> FALSE]
PacedCall == [WorldCall EXCEPT !.constant_rate_limit = TRUE]
NoCall == [api |-> "none", target |-> <<>>, shard |-> Str(""),
           password |-> "", constant_rate_limit |-> FALSE]

\* a faulty variant: the first shard that is permitted is enough
validate_shards_Any(kind, shards) ==
    \/ shards = {}
    \/ \E shard \in shards :
          CASE kind = "nation" ->
                  shard \in NATION_SHARDS \cup PRIVATE_NATION_SHARDS
            [] kind = "region" -> shard \in REGION_SHARDS
            [] kind = "world" -> shard \in WORLD_SHARDS
            [] kind = "wa" -> shard \in WA_SHARDS
            [] OTHER -> TRUE

\* _validate_shards(api, shards), lines 107-125: TRUE when it returns,
\* FALSE when it raises ValueError
validate_shards(kind, shards) ==
    \A shard \in shards :
        CASE kind = "nation" ->
                shard \in NATION_SHARDS \cup PRIVATE_NATION_SHARDS
          [] kind = "region" -> shard \in REGION_SHARDS
          [] kind = "world" -> shard \in WORLD_SHARDS
          [] kind = "wa" -> shard \in WA_SHARDS
          [] OTHER -> TRUE

\* api_request(), lines 372-383: the exception that the arguments raise,
\* "" when none
api_raises(a) ==
    IF a.api \notin {"nation", "region", "world", "wa"} THEN "ValueError"
    ELSE IF a.api # "world" /\ a.target = <<>> THEN "ValueError"
    ELSE IF a.api \in {"wa", "world"} /\ empty(a.shard) THEN "ValueError"
    ELSE IF ~validate_shards(a.api, a.shard.names) THEN "ValueError"
    ELSE ""

\* api_request(), lines 384-390: the data of the request.  keys are the
\* keys of the dict; target is the value under the key that names the api
\* and q the set of the shards that "+".join(shard) joins (both empty
\* without the key)
NoParams == [keys |-> {}, v |-> "", target |-> <<>>, q |-> {}]
api_params(a) ==
    [keys |-> {"v"} \cup (IF a.api # "world" THEN {a.api} ELSE {})
                   \cup (IF a.shard.names # {} THEN {"q"} ELSE {}),
     v |-> "12",
     target |-> IF a.api # "world" THEN a.target ELSE <<>>,
     q |-> a.shard.names]

\* api.nations is the list of nations in the document of the response, when
\* the call asked for it; api.asked are the arguments of api_request() and
\* api.params the data it has sent
NoApi == [impl |-> "none", head |-> <<>>, force |-> FALSE, status |-> 0,
          sleeps |-> <<>>, outcome |-> "none", nations |-> <<>>,
          asked |-> NoCall, params |-> NoParams]

\* api_request(), lines 372-404: the arguments are checked; the data of the
\* request is made, the password and the pin become headers of the client
\* and the request is sent; the rate limiter runs on the response headers,
\* the status is checked and the document is parsed.  api records the
\* arguments, the data sent, the headers of the response, the sleeps made
\* and how the call ended.
ApiRequest(t, asks, heads) ==
    /\ pc[t] = "idle"
    /\ apiSent < MaxApiCalls
    /\ \E a \in asks :
         IF api_raises(a) # ""
         THEN /\ api' = [NoApi EXCEPT !.impl = "nsdotpy", !.asked = a,
                                      !.outcome = api_raises(a)]
              /\ UNCHANGED <<apiSent, agent, pin>>
         ELSE /\ apiSent' = apiSent + 1
              /\ agent' = post(credentials(agent, a.password, pin), "api")
              /\ \E head \in heads, status \in ApiStatuses :
                   LET w == api_response(head, a.constant_rate_limit,
                                         status)
                   IN  /\ pin' = w.pin
                       /\ api' = [impl |-> "nsdotpy", head |-> head,
                                  force |-> a.constant_rate_limit,
                                  status |-> status,
                                  sleeps |-> w.sleeps,
                                  outcome |-> IF w.raised # "" THEN w.raised
                                              ELSE "ok",
                                  nations |-> <<>>, asked |-> a,
                                  params |-> api_params(a)]
    /\ UNCHANGED <<lock, chk, localid, sessionState, cookiePin, defaultData,
                   keyboardVars, callerVars, calls, htmlSent, errorSaved,
                   extSent, cmd>>

(***************************************************************************)
(* The construction of the session: __init__() looks up the nations of the *)
(* user agent with one call of the API.                                    *)
(***************************************************************************)
\* str.split(sep) for a one-character sep
RECURSIVE split(_, _)
split(s, sep) ==
    IF ~In(sep, s) THEN <<s>>
    ELSE LET i == CHOOSE k \in 1..Len(s) :
                      s[k] = sep /\ \A m \in 1..(k - 1) : s[m] # sep
         IN  <<SubSeq(s, 1, i - 1)>> \o split(SubSeq(s, i + 1, Len(s)), sep)

\* the nations shard of a response: the names of the nations, with commas
\* between them
RECURSIVE join(_)
join(names) ==
    IF names = <<>> THEN <<>>
    ELSE IF Len(names) = 1 THEN names[1]
    ELSE names[1] \o <<",">> \o join(Tail(names))

WorldNations ==
    {join(w) : w \in {<<>>, << <<"t", "l">> >>, << <<"t", "_", "l">> >>,
                      << <<"t", "l">>, <<"t", "_", "l">> >>}}

\* a faulty variant: one nation that exists is enough
validate_nations_Any(nations, body) ==
    LET world_nations == split(body, ",")
    IN  \E name \in nations :
            \E i \in 1..Len(world_nations) :
                world_nations[i] = canonicalize(name)

\* _validate_nations(nations), lines 153-155, on the nations shard of the
\* response
validate_nations(nations, body) ==
    LET world_nations == split(body, ",")
    IN  \A name \in nations :
            \E i \in 1..Len(world_nations) :
                world_nations[i] = canonicalize(name)

\* the header mappings of the response to the call of __init__: no request
\* left, one left, many left
BootHeads == {Headers({}, r, 10, {}) : r \in {0, 1, MaxRemaining}}

\* __init__(), lines 94-98: _validate_nations() calls
\* api_request("world", shard="nations"), which checks the shard, sends the
\* request, runs the rate limiter on the response, checks the status and
\* parses the document; the session is constructed when every nation is
\* listed, and __init__ raises otherwise
Construct(t, authors, links, heads) ==
    /\ pc[t] = "new"
    /\ op' = [op EXCEPT ![t] = "__init__"]
    /\ \E script_author \in authors, script_user \in Names,
          link_to_src \in links, body \in WorldNations, head \in heads,
          status \in ApiStatuses :
         LET w == api_response(head, FALSE, status)
             user_agent == set_user_agent(SCRIPT_NAME, SCRIPT_VERSION,
                                          script_author, script_user,
                                          link_to_src)
             made == [agent EXCEPT !.header = user_agent,
                                   !.made = <<script_author, script_user>>]
             raised ==
                 IF w.raised # "" THEN w.raised
                 ELSE IF ~validate_nations({script_author, script_user}, body)
                 THEN "ValueError"
                 ELSE ""
         IN  /\ arg' = [arg EXCEPT ![t] = <<script_author, script_user>>]
             /\ IF api_raises(WorldCall) # ""
                THEN /\ pc' = [pc EXCEPT ![t] = "failed"]
                     /\ outcome' = [outcome EXCEPT ![t] = "ValueError"]
                     /\ agent' = made
                     /\ UNCHANGED <<pin, apiSent, api>>
                ELSE /\ apiSent' = apiSent + 1
                     /\ agent' = post(credentials(made, "", pin), "api")
                     /\ pin' = w.pin
                     /\ api' = [impl |-> "nsdotpy", head |-> head,
                                force |-> FALSE, status |-> status,
                                sleeps |-> w.sleeps,
                                outcome |-> IF raised # "" THEN raised
                                            ELSE "ok",
                                nations |-> body, asked |-> WorldCall,
                                params |-> api_params(WorldCall)]
                     /\ pc' = [pc EXCEPT ![t] =
                                 IF raised # "" THEN "failed" ELSE "idle"]
                     /\ outcome' = [outcome EXCEPT ![t] =
                                      IF raised # "" THEN raised ELSE "ok"]
    /\ UNCHANGED <<lock, chk, localid, sessionState, cookiePin, defaultData,
                   keyboardVars, stage, data, gate, userclick, resp, calls,
                   htmlSent, errorSaved, extSent, cmd>>

(***************************************************************************)
(* api_command(): a command of the API is prepared, which yields a token,  *)
(* and executed with that token.  A call of api_command() sends its        *)
(* request (ApiCommand) and handles the response (ApiCommandResponse);     *)
(* when it was called without a mode it calls itself for the execution,    *)
(* which sends the second request inside the handling of the first         *)
(* response.                                                               *)
(***************************************************************************)
\* d[k] = v on a dict
Put(d, k, v) == [x \in DOMAIN d \cup {k} |-> IF x = k THEN v ELSE d[x]]

Commands == {"giftcard", "telegram"}
Modes == {"", "prepare", "execute", "both"}
Passwords == {"", "hunter2"}
\* the data of the caller: without a token, and with the token of an earlier
\* command
CommandData == {[cardid |-> "1"], [cardid |-> "1", token |-> "t0"]}
Tokens == {"t1", "t2"}

\* the documents of the responses, parsed: the command has succeeded, the
\* command was refused, there is no nation element
Documents ==
    {[nation |-> [success |-> k]] : k \in Tokens}
        \cup {[nation |-> [error |-> "e"]], [error |-> "e"]}

\* the header mappings of the responses to a command
CommandHeads ==
    {Headers({}, r, 10, xpin) : r \in {0, MaxRemaining},
                                xpin \in {{}, {"pin1"}}}

NoCmd == [calls |-> 0, nation |-> <<>>, command |-> "", asked |-> "none",
          mode |-> "none", data |-> [c |-> "none"], sent |-> <<>>,
          replies |-> <<>>, result |-> [none |-> "none"],
          outcome |-> "none"]

\* lines 472-477: the exception that the arguments raise, "" when none
command_raises(command, password, sessionPin, mode) ==
    IF command \notin {"giftcard", "dispatch", "rmbpost"} THEN "ValueError"
    ELSE IF password = "" /\ sessionPin = "" THEN "ValueError"
    ELSE IF mode \notin {"", "prepare", "execute"} THEN "ValueError"
    ELSE ""

\* a faulty variant: the mode is sent as it was given
command_params_RawMode(d, name, command, mode) ==
    Put(Put(Put(Put(d, "v", "12"), "nation", canonicalize(name)),
            "c", command), "mode", mode)

\* lines 478-481: the parameters of the request
command_params(d, name, command, mode) ==
    Put(Put(Put(Put(d, "v", "12"), "nation", canonicalize(name)),
            "c", command), "mode", IF mode # "" THEN mode ELSE "prepare")

\* a faulty variant: a prepared command is executed at once
chains_Prepared(mode) == mode # "execute"

\* line 495: a call without a mode goes on to the execution
chains(mode) == mode = ""

\* api_command(nation, command, data, password, mode), lines 472-490: the
\* arguments are checked, the parameters are written into data and the
\* request is sent
ApiCommand(t, names, datas, passwords, modes) ==
    /\ pc[t] = "idle"
    /\ cmd.calls < MaxCommands
    /\ op' = [op EXCEPT ![t] = "api_command"]
    /\ \E name \in names, command \in Commands, d \in datas,
          password \in passwords, mode \in modes :
         LET raised == command_raises(command, password, pin, mode)
             params == command_params(d, name, command, mode)
             call == [calls |-> cmd.calls + 1, nation |-> name,
                      command |-> command, asked |-> mode, mode |-> mode,
                      data |-> d, sent |-> <<>>, replies |-> <<>>,
                      result |-> NoCmd.result, outcome |-> "none"]
         IN  IF raised # ""
             THEN /\ cmd' = [call EXCEPT !.outcome = raised]
                  /\ outcome' = [outcome EXCEPT ![t] = raised]
                  /\ UNCHANGED <<pc, apiSent, agent>>
             ELSE /\ cmd' = [call EXCEPT !.data = params,
                                         !.sent = <<params>>]
                  /\ agent' = post(credentials(agent, password, pin), "api")
                  /\ pc' = [pc EXCEPT ![t] = "command"]
                  /\ outcome' = [outcome EXCEPT ![t] = "none"]
                  /\ apiSent' = apiSent + 1
    /\ UNCHANGED <<lock, tokenStore, sessionState, cookiePin, defaultData,
                   keyboardVars, stage, arg, data, gate, userclick, resp,
                   calls, htmlSent, errorSaved, extSent, api>>

\* api_command(), lines 491-500: the rate limiter runs on the headers of the
\* response, the status is checked, the document is parsed and its nation
\* element taken.  A call with a mode returns that element.  A call without
\* a mode puts the value under "success" into data as the token and calls
\* api_command(nation, command, data, mode="execute"), without the password
\* and without constant_rate_limit: that call checks its arguments and
\* sends the second request.
ApiCommandResponse(t, heads, docs) ==
    /\ pc[t] = "command"
    /\ \E head \in heads, status \in ApiStatuses, doc \in docs :
         LET w == api_response(head, FALSE, status)
             parsed == doc["nation"]
             raised ==
                 IF w.raised # "" THEN w.raised
                 ELSE IF "nation" \notin DOMAIN doc THEN "KeyError"
                 ELSE IF ~chains(cmd.mode) THEN ""
                 ELSE IF "success" \notin DOMAIN parsed THEN "KeyError"
                 ELSE command_raises(cmd.command, "", w.pin, "execute")
             got == [cmd EXCEPT !.replies = Append(cmd.replies, doc)]
         IN  /\ pin' = w.pin
             /\ api' = [impl |-> "nsdotpy", head |-> head, force |-> FALSE,
                        status |-> status, sleeps |-> w.sleeps,
                        outcome |-> IF w.raised # "" THEN w.raised
                                    ELSE "ok",
                        nations |-> <<>>, asked |-> NoCall,
                        params |-> NoParams]
             /\ IF raised # ""
                THEN /\ cmd' = [got EXCEPT !.outcome = raised]
                     /\ pc' = [pc EXCEPT ![t] = "idle"]
                     /\ outcome' = [outcome EXCEPT ![t] = raised]
                     /\ UNCHANGED <<apiSent, agent>>
                ELSE IF ~chains(cmd.mode)
                THEN /\ cmd' = [got EXCEPT !.result = parsed,
                                           !.outcome = "ok"]
                     /\ pc' = [pc EXCEPT ![t] = "idle"]
                     /\ outcome' = [outcome EXCEPT ![t] = "ok"]
                     /\ UNCHANGED <<apiSent, agent>>
                ELSE LET params ==
                             command_params(
                                 Put(cmd.data, "token", parsed["success"]),
                                 cmd.nation, cmd.command, "execute")
                     IN  /\ cmd' = [got EXCEPT !.mode = "execute",
                                               !.data = params,
                                               !.sent = Append(cmd.sent,
                                                               params)]
                         /\ apiSent' = apiSent + 1
                         /\ agent' = post(credentials(agent, "", w.pin),
                                          "api")
                         /\ UNCHANGED <<pc, outcome>>
    /\ UNCHANGED <<lock, chk, localid, sessionState, cookiePin, defaultData,
                   keyboardVars, op, stage, arg, data, gate, userclick, resp,
                   calls, htmlSent, errorSaved, extSent>>

(***************************************************************************)
(* The first version of the session (src/src/session.py) has the rate      *)
(* limiter inside api_request(): it reads the X-RateLimit headers and      *)
(* paces every call.                                                       *)
(***************************************************************************)
LegacyHeads ==
    {[n \in {"X-RateLimit-Remaining", "X-RateLimit-Reset"}
             \cup (IF retry = {} THEN {} ELSE {"Retry-After"}) |->
        CASE n = "X-RateLimit-Remaining" -> str(remaining)
          [] n = "X-RateLimit-Reset" -> str(reset)
          [] n = "Retry-After" -> str(CHOOSE x \in retry : TRUE)] :
        retry \in {{}} \cup {{x} : x \in 0..MaxRetry},
        remaining \in 0..MaxRemaining,
        reset \in ResetValues}

\* api_request(), src/src/session.py lines 159-168: the sleeps it makes in
\* order, the exception it ends with
legacy_ratelimit(head) ==
    LET first == IF Has(head, "Retry-After") /\ head["Retry-After"] # <<>>
                 THEN <<Seconds(int(head["Retry-After"]), 1)>>
                 ELSE <<>>
        requests_left == int(head["X-RateLimit-Remaining"])
        seconds_until_reset == int(head["X-RateLimit-Reset"])
    IN  IF requests_left = 0
        THEN [sleeps |-> first, raised |-> "ZeroDivisionError"]
        ELSE [sleeps |-> Append(first,
                           Seconds(seconds_until_reset, requests_left)),
              raised |-> ""]

LegacyApiRequest(t) ==
    /\ pc[t] = "idle"
    /\ apiSent < MaxApiCalls
    /\ apiSent' = apiSent + 1
    /\ Carry("api")
    /\ \E head \in LegacyHeads, status \in ApiStatuses :
         LET w == legacy_ratelimit(head)
         IN  api' = [impl |-> "legacy", head |-> head, force |-> TRUE,
                     status |-> status, sleeps |-> w.sleeps,
                     outcome |-> IF w.raised # "" THEN w.raised ELSE "ok",
                     nations |-> <<>>, asked |-> NoCall,
                     params |-> NoParams]
    /\ UNCHANGED <<lock, tokenStore, sessionState, cookiePin, defaultData,
                   keyboardVars, callerVars, calls, htmlSent, errorSaved,
                   extSent, cmd>>

(***************************************************************************)
(* The state after construction (__init__, lines 81-92), and the           *)
(* specifications.                                                         *)
(***************************************************************************)
Fresh(where) ==
    /\ lock = FALSE
    /\ chk = <<>>
    /\ localid = <<>>
    /\ pin = ""
    /\ nation = <<>>
    /\ region = <<>>
    /\ cookiePin = ""
    /\ defaultData = NoData
    /\ agent = IF where = "new" THEN NoSession ELSE MadeSession
    /\ keyPressed = FALSE
    /\ cycles = 0
    /\ pc = [t \in Callers |-> where]
    /\ op = [t \in Callers |-> "none"]
    /\ stage = [t \in Callers |-> 1]
    /\ arg = [t \in Callers |-> <<>>]
    /\ data = [t \in Callers |-> NoData]
    /\ gate = [t \in Callers |-> NoGate]
    /\ userclick = [t \in Callers |-> 0]
    /\ resp = [t \in Callers |-> NoResp]
    /\ outcome = [t \in Callers |-> "none"]
    /\ calls = 0
    /\ htmlSent = 0
    /\ errorSaved = FALSE
    /\ extSent = 0
    /\ apiSent = 0
    /\ api = NoApi
    /\ cmd = NoCmd

Init == Fresh("idle")

\* the state in __init__ at line 93: the fields are set, the nations of the
\* user agent have not been looked up yet
InitBoot == Fresh("new")

\* the steps of a caller on the HTML path
Step(t, ops, urls, payloads, responses, fields) ==
    \/ Call(t, ops, urls, payloads)
    \/ RequestCheck(t)
    \/ SetLock(t)
    \/ HtmlBegin(t)
    \/ WaitReturn(t)
    \/ Send(t)
    \/ TransportFailure(t)
    \/ Respond(t, responses, fields)
    \/ Unlock(t)
    \/ Continue(t)

Keyboard == KeyPress \/ KeyRepeat \/ KeyRelease

\* one caller, as the session is meant to be used: its operations follow
\* one another
Next ==
    Keyboard
    \/ Step(1, HtmlOps, {Site("page=display_region")}, {"empty"},
            CoreResponses, OpFields)
Spec == Init /\ [][Next]_vars

\* two callers that use the same session at once
NextThreads ==
    Keyboard
    \/ \E t \in Callers :
          Step(t, {"request"}, {Site("page=display_region")}, {"empty"},
               CoreResponses, OpFields)
SpecThreads == Init /\ [][NextThreads]_vars

\* the header mappings of the API responses between the pages: with a pin
\* of the API or without, and no pacing
PinHeads ==
    {Headers({}, MaxRemaining, 10, xpin) : xpin \in {{}, {"pin2"}}}

\* one caller of request() on a page of the site, every page the extractor
\* may be given, and structured-API calls between the requests
NextExtract ==
    \/ Keyboard
    \/ Step(1, {"request"}, {Site("page=display_region")}, {"empty"},
            ExtractResponses, ExtractFields)
    \/ ApiRequest(1, {WorldCall}, PinHeads)
SpecExtract == Init /\ [][NextExtract]_vars

\* the pages that answer login, move_to_region and change_nation_settings:
\* with the mark of success or without, served to a nation or to nobody,
\* with the links of the banner or without
OpResponses ==
    {[status |-> st, html |-> TRUE, chk |-> <<"c", "1">>,
      localid |-> <<"l", "1">>, setPin |-> Absent,
      standout |-> IF link = <<>> THEN 0 ELSE 2,
      href |-> IF link = <<>> THEN AuthRegion ELSE link,
      location |-> Absent, nname |-> n, success |-> ok] :
        st \in {200, 404}, link \in Regions \cup {<<>>},
        n \in {canonicalize(x) : x \in Names} \cup {<<>>}, ok \in BOOLEAN}

\* one caller that logs in, moves and changes its settings
NextOps ==
    Keyboard
    \/ Step(1, {"login", "move_to_region", "change_nation_settings"}, {},
            {"empty"}, OpResponses, OpFields)
SpecOps == Init /\ [][NextOps]_vars

\* one caller of request() with the URLs of the site and of another host
NextDispatch ==
    Keyboard \/ Step(1, {"request"}, Urls, {"empty"}, CoreResponses, OpFields)
SpecDispatch == Init /\ [][NextDispatch]_vars

\* a plain page of the site, with the statuses it may have
PlainResponses ==
    {r \in CoreResponses :
        /\ r.html /\ r.chk # NoInput /\ r.setPin = Absent
        /\ r.standout = 0 /\ r.location = Absent}

\* the construction of the session, and the requests of its one caller
\* after it
NextBoot ==
    \/ Construct(1, Names, Links, BootHeads)
    \/ Keyboard
    \/ Step(1, {"request"}, {Site("page=display_region")}, {"empty"},
            PlainResponses, OpFields)
SpecBoot == InitBoot /\ [][NextBoot]_vars

\* a page of the site with a success status
OkResponses == {r \in PlainResponses : r.status = 200 /\ r.standout = 0}

\* the construction of the session and every kind of request after it: to
\* the site, to another host, and commands of the API
NextAgent ==
    \/ Construct(1, {<<"T", " ", "L">>}, {<<"g", "i", "t">>},
                 {Headers({}, MaxRemaining, 10, {})})
    \/ Keyboard
    \/ Step(1, {"request"},
            {Site("page=display_region"), External("page=display_region")},
            {"empty"}, OkResponses, OpFields)
    \/ ApiCommand(1, {<<"t", "l">>}, {[cardid |-> "1"]}, {"hunter2"}, {""})
    \/ ApiCommandResponse(1, {Headers({}, MaxRemaining, 10, {"pin1"})},
                          {[nation |-> [success |-> "t1"]]})
SpecAgent == InitBoot /\ [][NextAgent]_vars

\* requests to the site and to another host, with data and without
NextForward ==
    \/ Keyboard
    \/ Step(1, {"request"},
            {Site("page=display_region"), External("page=display_region")},
            Payloads, PlainResponses, OpFields)
SpecForward == Init /\ [][NextForward]_vars

\* the commands of the API, after a request of the API that may have left a
\* pin
NextCommand ==
    \/ ApiRequest(1, {WorldCall}, PinHeads)
    \/ ApiCommand(1, Names, CommandData, Passwords, Modes)
    \/ ApiCommandResponse(1, CommandHeads, Documents)
SpecCommand == Init /\ [][NextCommand]_vars

\* the header mappings that make the rate limiter sleep or not: with
\* Retry-After or without, no request left, some left, many left
OrderHeads ==
    {Headers(retry, remaining, 10, xpin) :
        retry \in {{}, {5}}, remaining \in {0, 5, MaxRemaining},
        xpin \in {{}, {"pin1"}}}

\* requests and commands of the API, answered with either status and with
\* every header mapping of OrderHeads
NextOrder ==
    \/ ApiRequest(1, {WorldCall, PacedCall}, OrderHeads)
    \/ ApiCommand(1, {<<"t", "l">>}, {[cardid |-> "1"]}, {"hunter2"},
                  {"", "prepare"})
    \/ ApiCommandResponse(1, OrderHeads, Documents)
SpecOrder == Init /\ [][NextOrder]_vars

\* api_request() with every combination of arguments, answered with 5
\* requests left of a window of 10 s, which makes the rate limiter sleep
NextValidate == ApiRequest(1, ApiArgs, {Headers({}, 5, 10, {"pin1"})})
SpecValidate == Init /\ [][NextValidate]_vars

\* requests to the site and to another host, requests of the API (one of
\* them refused) and commands of the API, in any order
NextFrame ==
    \/ Keyboard
    \/ Step(1, {"request"},
            {Site("page=display_region"), External("page=display_region")},
            {"empty"}, OkResponses, OpFields)
    \/ ApiRequest(1, {WorldCall, [WorldCall EXCEPT !.shard = Str("bogus")]},
                  PinHeads)
    \/ ApiCommand(1, {<<"t", "l">>}, {[cardid |-> "1"]}, {"hunter2"},
                  {"prepare"})
    \/ ApiCommandResponse(1, PinHeads, {[nation |-> [success |-> "t1"]]})
SpecFrame == Init /\ [][NextFrame]_vars

\* the structured-API path
NextApi ==
    ApiRequest(1, {WorldCall, PacedCall}, ApiHeads) \/ LegacyApiRequest(1)
SpecApi == Init /\ [][NextApi]_vars

(***************************************************************************)
(* Properties.                                                             *)
(***************************************************************************)
\* caller t's HTML-protocol request is in flight: it has set the lock and
\* has not cleared it
InFlight(t) == pc[t] \in {"locked", "wait", "post", "sent", "unlock"}

\* caller t takes a step
Moves(t) == pc'[t] # pc[t] \/ outcome'[t] # outcome[t]

\* C1: a request() for a site URL that finds the lock held raises
\* PermissionError; that call waits for no key and sends nothing, and the
\* lock, the token store and the session state stay as they were.
C1_RefusedCallChangesNothing ==
    [][\A t \in Callers :
          (pc[t] = "request" /\ lock /\ Moves(t)) =>
             /\ outcome'[t] = "PermissionError"
             /\ pc'[t] = "idle"
             /\ lock' = lock
             /\ tokenStore' = tokenStore
             /\ sessionState' = sessionState
             /\ htmlSent' = htmlSent
             /\ gate' = gate
             /\ userclick'[t] = 0]_vars

\* a second call was refused while the first caller's request is on the wire
C1_Witness ==
    \E t, u \in Callers :
        /\ t # u
        /\ outcome[t] = "PermissionError"
        /\ pc[t] = "idle"
        /\ pc[u] = "sent"
        /\ lock
        /\ htmlSent = 1

\* C2: whatever the interleaving of two callers, at most one HTML-protocol
\* request is in flight (between the lock being set and being cleared).
C2_AtMostOneInFlight == Cardinality({t \in Callers : InFlight(t)}) <= 1

\* C3: after an HTML-protocol request that ended with an HTTP error status
\* or a transport failure, the lock is not held.
C3_LockClearedAfterFailure ==
    \A t \in Callers :
        (pc[t] = "idle" /\ outcome[t] \in {"HTTPError", "TransportError"}
            /\ \A u \in Callers : ~InFlight(u))
        => ~lock

\* C4: every HTML-protocol request on the wire carries a userclick read by
\* its own key wait, made while it held the lock; a request that has not
\* waited yet has no userclick; and the requests sent never outnumber the
\* completed press-and-release cycles.
C4_OneClickPerRequest ==
    /\ htmlSent <= cycles
    /\ \A t \in Callers :
          /\ pc[t] = "sent" => (lock /\ userclick[t] > 0)
          /\ pc[t] = "post" => (lock /\ userclick[t] > 0 /\ gate[t].returned)
          /\ pc[t] \in {"idle", "request", "passed", "locked", "wait"}
                => userclick[t] = 0

\* the refresh request of a two-request operation is on the wire, and every
\* cycle of the key has been used by a request
C4_Witness ==
    /\ op[1] \in TwoRequestOps
    /\ stage[1] = 2
    /\ pc[1] = "sent"
    /\ htmlSent = 2
    /\ cycles = 2

\* C5: _wait_for_input returns only when the key is not pressed and has
\* gone from pressed to released since the key-down event the call saw, and
\* it returns the time read at that moment.
C5_ReturnsAfterRelease ==
    [][\A t \in Callers :
          (pc[t] = "wait" /\ pc'[t] # "wait") =>
             /\ ~keyPressed'
             /\ gate'[t].release
             /\ gate'[t].returned
             /\ userclick'[t] = time_ms']_vars

\* a call has returned after the key was pressed and released during it
C5_Witness ==
    /\ pc[1] = "post"
    /\ gate[1].returned
    /\ gate[1].press
    /\ gate[1].release
    /\ ~keyPressed

\* C6: a _wait_for_input call that began with the key held returns only
\* after a new press of the key.
C6_HeldKeyNeedsNewPress ==
    \A t \in Callers :
        (pc[t] = "post" /\ gate[t].returned /\ gate[t].held) => gate[t].press

\* the headers of the last structured-API call, read as numbers
ApiHas(name) == api.impl # "none" /\ Has(api.head, name)
ApiRemaining ==
    int(api.head[IF api.impl = "legacy" THEN "X-RateLimit-Remaining"
                 ELSE "RateLimit-Remaining"])
ApiReset ==
    int(api.head[IF api.impl = "legacy" THEN "X-RateLimit-Reset"
                 ELSE "RateLimit-Reset"])
ApiRetry == int(api.head["Retry-After"])

\* the sum of a sequence of sleeps, as a fraction
RECURSIVE SumSeconds(_)
SumSeconds(s) ==
    IF s = <<>> THEN Seconds(0, 1)
    ELSE LET a == s[1]
             b == SumSeconds(Tail(s))
         IN  Seconds(a.num * b.den + b.num * a.den, a.den * b.den)

\* C7: with a remaining-request-count of 0 the rate limiter sleeps the full
\* reset window and returns; the call does not end with a division error.
C7_ZeroRemainingSleepsResetWindow ==
    (api.impl # "none" /\ ApiRemaining = 0) =>
        /\ api.outcome # "ZeroDivisionError"
        /\ api.sleeps # <<>>
        /\ LET last == api.sleeps[Len(api.sleeps)]
           IN  last.num = ApiReset * last.den

\* C8: without a Retry-After header and with a remaining-request-count of at
\* least 1, the rate limiter sleeps once, reset_window / remaining seconds,
\* when remaining < 10 or force is set (10 s for remaining 1, window 10),
\* and does not sleep when remaining >= 10 and force is not set.
C8_PacedSleep ==
    (api.impl = "nsdotpy" /\ ~ApiHas("Retry-After") /\ ApiRemaining >= 1) =>
        /\ (ApiRemaining < 10 \/ api.force) =>
              /\ Len(api.sleeps) = 1
              /\ api.sleeps[1].num * ApiRemaining
                    = ApiReset * api.sleeps[1].den
        /\ (ApiRemaining >= 10 /\ ~api.force) => api.sleeps = <<>>
        /\ (ApiRemaining = 1 /\ ApiReset = 10) =>
              SumSeconds(api.sleeps) = Seconds(10, 1)

\* the limiter has paced a call with 3 requests left of a window of 10 s
C8_Witness ==
    /\ api.impl = "nsdotpy"
    /\ ~ApiHas("Retry-After")
    /\ ApiRemaining = 3
    /\ ApiReset = 10
    /\ ~api.force
    /\ api.sleeps = <<Seconds(10, 3)>>
    /\ api.outcome = "ok"

\* C9: when the response carries Retry-After: N, the sleeps of the rate
\* limiter add up to at least N seconds, whatever the remaining count and
\* force are and however the call ends.
C9_RetryAfterIsSlept ==
    (api.impl = "nsdotpy" /\ ApiHas("Retry-After")) =>
        LET total == SumSeconds(api.sleeps)
        IN  total.num >= ApiRetry * total.den

\* Retry-After: 5 with 9 requests left: 5 s and then 10/9 s are slept
C9_Witness ==
    /\ api.impl = "nsdotpy"
    /\ ApiHas("Retry-After")
    /\ ApiRetry = 5
    /\ ApiRemaining = 9
    /\ ApiReset = 10
    /\ api.sleeps = <<Seconds(5, 1), Seconds(10, 9)>>

\* C10: a structured-API call whose response carries Retry-After does not
\* raise to its caller (stated for the responses with a remaining count of
\* at least 1, on which the rate limiter itself returns).
C10_RateLimitedCallDoesNotRaise ==
    (api.impl = "nsdotpy" /\ ApiHas("Retry-After") /\ ApiRemaining >= 1)
        => api.outcome = "ok"

(***************************************************************************)
(* The extractor.                                                          *)
(***************************************************************************)
\* caller t's request gets its response and the extractor returns
Extracts(t) == pc[t] = "sent" /\ pc'[t] = "unlock"

\* the response carries the token field: the element with a value
Carries(field) == field \notin {NoInput, NoValue}

\* C11 as stated: after the extraction from a markup response with both
\* token fields, the chk and the localid of the token store are exactly the
\* two values of the response.
C11_StoreEqualsCarriedValues ==
    [][\A t \in Callers :
          (Extracts(t) /\ resp'[t].html
              /\ Carries(resp'[t].chk) /\ Carries(resp'[t].localid))
          => (chk' = resp'[t].chk /\ localid' = resp'[t].localid)]_vars

\* C11, amended: after the extraction from a markup response with both
\* token fields, the chk and the localid of the token store are the two
\* values of the response with the white space at their ends removed,
\* whatever the store held before.
C11_StoreEqualsStrippedValues ==
    [][\A t \in Callers :
          (Extracts(t) /\ resp'[t].html
              /\ Carries(resp'[t].chk) /\ Carries(resp'[t].localid))
          => (chk' = strip(resp'[t].chk)
                /\ localid' = strip(resp'[t].localid))]_vars

\* the second response of the session carried a chk with white space around
\* it, and the store holds that chk without the white space
C11_Witness ==
    /\ pc[1] = "unlock"
    /\ calls = 2
    /\ resp[1].html
    /\ resp[1].chk = <<" ", "c", "2", " ">>
    /\ resp[1].localid = <<"l", "1">>
    /\ chk = <<"c", "2">>
    /\ localid = <<"l", "1">>

\* the page is served to nobody: its <body> names no nation
LoggedOutPage(r) == r.html /\ r.nname = <<>>

\* C12: the extraction from a markup response that is not a logged-out page
\* leaves unchanged the stored value of every token field (chk, localid,
\* pin) that the response does not carry.
C12_MissingFieldKeepsValue ==
    [][\A t \in Callers :
          (Extracts(t) /\ resp'[t].html /\ ~LoggedOutPage(resp'[t])) =>
             /\ resp'[t].chk = NoInput => chk' = chk
             /\ resp'[t].localid = NoInput => localid' = localid
             /\ resp'[t].setPin = Absent => pin' = pin]_vars

\* C13: after the extraction from a logged-out page that carries no token
\* field, the token store is cleared: it holds no chk and no localid, so
\* that none is merged into the next HTML-protocol request.
C13_LoggedOutPageClearsStore ==
    [][\A t \in Callers :
          (Extracts(t) /\ LoggedOutPage(resp'[t])
              /\ resp'[t].chk = NoInput /\ resp'[t].localid = NoInput
              /\ resp'[t].setPin = Absent)
          => (chk' = <<>> /\ localid' = <<>>)]_vars

(***************************************************************************)
(* The validator and the dispatcher.                                       *)
(***************************************************************************)
\* caller t calls an operation
Calls(t) == pc[t] = "idle" /\ calls' = calls + 1 /\ op'[t] # "none"
               /\ (pc'[t] # "idle" \/ outcome'[t] # "none")

\* a keyword argument of change_nation_settings() is longer than its limit
TooLong(a) == \E n \in SettingNames : Len(a[n]) > max_lengths[n]

\* C14: change_nation_settings() with a length-limited field longer than its
\* maximum ends with a validation error at once: no request is made, no key
\* is waited for, and the lock and the session stay as they were.
C14_TooLongFieldIsRefused ==
    [][\A t \in Callers :
          (Calls(t) /\ op'[t] = "change_nation_settings" /\ TooLong(arg'[t]))
          => /\ pc'[t] = "idle"
             /\ outcome'[t] = "ValueError"
             /\ lock' = lock
             /\ tokenStore' = tokenStore
             /\ sessionState' = sessionState
             /\ htmlSent' = htmlSent]_vars

\* the page that the URL names is one of the disallowed categories
\* (telegrams, compose_telegram, dilemmas, store, help), in whatever case
Disallowed(url) ==
    \E i \in 1..Len(url) :
        url[i] \in {"page=telegrams", "page=compose_telegram",
                    "page=dilemmas", "page=store", "page=help", "PAGE=STORE"}

\* C15: request() with a URL of a disallowed category ends with a validation
\* error, on the site and on any other host, with the lock held or free:
\* nothing is sent on any path, no key is waited for and the lock is not
\* touched.
C15_DisallowedUrlIsRefused ==
    [][\A t \in Callers :
          (pc[t] = "request" /\ op[t] = "request" /\ Disallowed(arg[t])
              /\ Moves(t))
          => /\ pc'[t] = "idle"
             /\ outcome'[t] = "ValueError"
             /\ lock' = lock
             /\ htmlSent' = htmlSent
             /\ extSent' = extSent
             /\ gate' = gate
             /\ userclick'[t] = 0
             /\ tokenStore' = tokenStore
             /\ sessionState' = sessionState]_vars

\* a request for the help page on another host, made while the lock is held
\* after a failed request, has ended with the validation error
C15_Witness ==
    /\ op[1] = "request"
    /\ arg[1] = External("page=help")
    /\ pc[1] = "idle"
    /\ outcome[1] = "ValueError"
    /\ lock
    /\ htmlSent = 1
    /\ extSent = 0

(***************************************************************************)
(* The operations that change the session state.                           *)
(***************************************************************************)
\* request() has returned a response to the operation of caller t, and the
\* operation goes on
Resumes(t, o) == pc[t] = "returned" /\ op[t] = o /\ Moves(t)

\* the nation of the session is known: the session is logged in
logged_in == nation # <<>>

\* C16: when the page returned to login() names the nation in its <body>,
\* login returns True, the session is logged in and its nation is the
\* canonical form of the name given; when the page does not, login returns
\* False and the nation of the session is what it was.
C16_LoginSetsIdentity ==
    [][\A t \in Callers :
          Resumes(t, "login") =>
             IF resp[t].nname = canonicalize(arg[t])
             THEN /\ outcome'[t] = "true"
                  /\ logged_in'
                  /\ nation' = canonicalize(arg[t])
             ELSE /\ outcome'[t] = "false"
                  /\ nation' = nation]_vars

\* the login as "T L" has succeeded: the nation of the session is "t_l"
C16_Witness ==
    /\ op[1] = "login"
    /\ arg[1] = <<"T", " ", "L">>
    /\ pc[1] = "idle"
    /\ outcome[1] = "true"
    /\ nation = <<"t", "_", "l">>
    /\ logged_in

\* C17: when the page returned to move_to_region() has the mark of success,
\* the region of the session becomes the canonical form of the target,
\* whatever region the extractor has derived from that page, and
\* move_to_region returns True.
C17_MoveSetsRegion ==
    [][\A t \in Callers :
          (Resumes(t, "move_to_region") /\ resp[t].success) =>
             /\ outcome'[t] = "true"
             /\ region' = canonicalize(arg[t])]_vars

\* the move to "Lily" has succeeded on the first call of the session: the
\* region is "lily"
C17_Witness ==
    /\ op[1] = "move_to_region"
    /\ arg[1] = <<"L", "i", "l", "y">>
    /\ calls = 1
    /\ pc[1] = "idle"
    /\ outcome[1] = "true"
    /\ region = <<"l", "i", "l", "y">>

\* C18: a move_to_region() whose page has no mark of success leaves the
\* region of the session as it was before the call, whatever the page
\* contains: neither the extraction from the page nor the rest of the
\* operation changes it.
C18_FailedMoveKeepsRegion ==
    [][\A t \in Callers :
          (op[t] = "move_to_region"
              /\ \/ Extracts(t) /\ ~resp'[t].success
                 \/ Resumes(t, "move_to_region") /\ ~resp[t].success)
          => region' = region]_vars

(***************************************************************************)
(* The construction of the session.                                        *)
(***************************************************************************)
\* every nation given to __init__ is, in its canonical form, one of the
\* nations that the call of the API has listed
AllExist ==
    LET listed == split(api.nations, ",")
    IN  \A k \in 1..Len(arg[1]) :
            canonicalize(arg[1][k]) \in {listed[i] : i \in 1..Len(listed)}

\* C19: the construction makes one call of the API and no HTML-protocol
\* request, and waits for no key; it completes only if the canonical forms
\* of the author and of the user are among the nations listed by that call,
\* and it raises otherwise; a session whose construction has raised is
\* never used.
C19_ConstructionChecksNations ==
    [][/\ (pc[1] = "new" /\ pc'[1] # "new") =>
             /\ apiSent' = apiSent + 1
             /\ htmlSent' = htmlSent
             /\ extSent' = extSent
             /\ gate' = gate
             /\ lock' = lock
             /\ pc'[1] = "idle" => AllExist'
             /\ ~AllExist' => (pc'[1] = "failed"
                                 /\ outcome'[1] \notin {"none", "ok"})
       /\ pc[1] = "new" => (htmlSent = 0 /\ extSent = 0 /\ apiSent = 0)
       /\ pc[1] = "failed" =>
             (pc'[1] = "failed" /\ htmlSent' = htmlSent
                 /\ apiSent' = apiSent /\ calls' = calls)]_vars

\* the session of the author "T L" and the user "tl" has been constructed
\* on the list "tl,t_l" with one call of the API
C19_Witness ==
    /\ op[1] = "__init__"
    /\ pc[1] = "idle"
    /\ arg[1] = << <<"T", " ", "L">>, <<"t", "l">> >>
    /\ api.nations = <<"t", "l", ",", "t", "_", "l">>
    /\ apiSent = 1
    /\ htmlSent = 0
    /\ AllExist

(***************************************************************************)
(* The commands of the API.                                                *)
(***************************************************************************)
\* a request of the last command was sent with this mode as the k-th
SentMode(k) == cmd.sent[k]["mode"]

\* C20: a call of api_command without a mode sends at most two requests,
\* the second only when the response to the first has been received; the
\* first carries the mode "prepare"; the second carries the mode "execute"
\* and is otherwise the first with the token set to the value under
\* "success" in the first response; and when the call returns, both were
\* sent and what it returns is the nation element of the second response.
C20_PrepareThenExecute ==
    cmd.asked = "" =>
        /\ Len(cmd.sent) <= 2
        /\ Len(cmd.sent) <= Len(cmd.replies) + 1
        /\ Len(cmd.replies) <= Len(cmd.sent)
        /\ Len(cmd.sent) >= 1 => SentMode(1) = "prepare"
        /\ Len(cmd.sent) = 2 =>
              /\ "nation" \in DOMAIN cmd.replies[1]
              /\ "success" \in DOMAIN cmd.replies[1]["nation"]
              /\ SentMode(2) = "execute"
              /\ cmd.sent[2]["token"] = cmd.replies[1]["nation"]["success"]
              /\ DOMAIN cmd.sent[2] = DOMAIN cmd.sent[1] \cup {"token"}
              /\ \A k \in DOMAIN cmd.sent[1] \ {"mode", "token"} :
                    cmd.sent[2][k] = cmd.sent[1][k]
        /\ cmd.outcome = "ok" =>
              /\ Len(cmd.sent) = 2
              /\ Len(cmd.replies) = 2
              /\ cmd.result = cmd.replies[2]["nation"]

\* a command without a mode, on data that held the token of an earlier
\* command, has been prepared, executed with the token "t2" of the
\* preparation, and has returned
C20_Witness ==
    /\ cmd.asked = ""
    /\ cmd.outcome = "ok"
    /\ Len(cmd.sent) = 2
    /\ "token" \in DOMAIN cmd.sent[1]
    /\ cmd.sent[1]["token"] = "t0"
    /\ cmd.sent[2]["token"] = "t2"
    /\ cmd.replies[1]["nation"]["success"] = "t2"
    /\ cmd.result = [success |-> "t1"]

(***************************************************************************)
(* The results of the operations.                                          *)
(***************************************************************************)
\* the response that caller t's operation reads declines the action: its
\* status is 200, and it has no success target in a location header, no
\* success phrase and no nation in its <body>
Declined(t) ==
    /\ pc[t] = "returned"
    /\ op[t] # "request"
    /\ resp[t].status = 200
    /\ resp[t].location # "success"
    /\ ~resp[t].success
    /\ resp[t].nname = <<>>

\* C21: an operation that ends on a response declining the action ends
\* with the result false, without an exception.
C21_DeclinedReturnsFalse ==
    [][(Declined(1) /\ pc'[1] = "idle") => outcome'[1] = "false"]_vars

(***************************************************************************)
(* The requests to other hosts.                                            *)
(***************************************************************************)
\* caller t's request goes to another host in this step
Forwards(t) == pc[t] = "request" /\ extSent' = extSent + 1

\* C22: a request to another host is sent with the data the caller gave:
\* with no key when the caller gave none, and never with the keys chk and
\* localid or with a userclick.
C22_ExternalGetsCallersData ==
    [][Forwards(1) =>
          /\ data[1].shared => data'[1].keys = {}
          /\ data'[1].keys \cap {"chk", "localid"} = {}
          /\ userclick'[1] = 0]_vars

(***************************************************************************)
(* The User-Agent header.                                                  *)
(***************************************************************************)
\* sub is a part of the string s
ContainsSeq(s, sub) ==
    \E i \in 0..(Len(s) - Len(sub)) : SubSeq(s, i + 1, i + Len(sub)) = sub

\* the header names the author and the user that __init__ was given
Identifies(header) ==
    ContainsSeq(header, <<" (by:">> \o agent.made[1] \o <<"; usedBy:">>
                            \o agent.made[2] \o <<")">>)

Requests == apiSent + htmlSent + extSent

\* C23: no request is sent before __init__ has set the User-Agent header;
\* every request sent, to the API, to the site or to another host, carries
\* the header that names the author and the user given to __init__; and the
\* header does not change once it is set.
C23_EveryRequestCarriesUserAgent ==
    [][/\ agent.made = <<>> => (Requests = 0 /\ agent.carried = {})
       /\ Requests' > Requests => agent'.header \in agent'.carried
       /\ agent'.made # <<>> =>
             \A header \in agent'.carried :
                 header = agent'.header /\ Identifies(header)'
       /\ agent.made # <<>> =>
             (agent'.header = agent.header /\ agent'.made = agent.made)]_vars

\* the session made by "T L" for "tl" has sent the request of __init__, two
\* requests of a command, a request to the site and one to another host
C23_Witness ==
    /\ agent.made = << <<"T", " ", "L">>, <<"t", "l">> >>
    /\ agent.carried = {agent.header}
    /\ Identifies(agent.header)
    /\ apiSent = 3
    /\ htmlSent = 1
    /\ extSent = 1

(***************************************************************************)
(* The nation and the region of the session.                               *)
(***************************************************************************)
\* caller t's step ends a login or a move with the result True, or is a
\* step of refresh_auth_values()
MayChangeSessionState(t) ==
    \/ /\ pc[t] = "returned"
       /\ op[t] \in {"login", "move_to_region"}
       /\ outcome'[t] = "true"
    \/ stage[t] = 2

\* C24: the nation and the region of the session change only when a login
\* or a move succeeds and in refresh_auth_values(); no other step of an
\* operation changes them, whatever the response.
C24_SessionStateChangesOnlyOnSuccess ==
    [][(nation' # nation \/ region' # region)
          => MayChangeSessionState(1)]_vars

(***************************************************************************)
(* The extractor.                                                          *)
(***************************************************************************)
\* C25: the request whose response has a success status returns that
\* response: the extraction from it does not end the request with an
\* exception, whatever the page contains.
C25_ExtractionNeverRaises ==
    [][(pc[1] = "sent" /\ pc'[1] # "sent"
           /\ outcome'[1] \notin {"TransportError", "HTTPError"})
          => (pc'[1] = "unlock" /\ outcome'[1] = "none")]_vars

\* C26: the extraction from a response that is not markup changes none of
\* chk, localid, pin, nation and region.
C26_NonMarkupChangesNothing ==
    [][(pc[1] = "sent" /\ pc'[1] = "unlock" /\ ~resp'[1].html)
          => UNCHANGED <<chk, localid, pin, nation, region>>]_vars

\* the store holds the chk of an earlier page and no pin; the response, not
\* markup, has another chk in its text and has set the pin cookie
C26_Witness ==
    /\ pc[1] = "unlock"
    /\ ~resp[1].html
    /\ resp[1].chk = <<"c", "1">>
    /\ resp[1].setPin = "pin1"
    /\ cookiePin = "pin1"
    /\ chk = <<"c", "2">>
    /\ pin = ""

(***************************************************************************)
(* The fields of change_nation_settings().                                 *)
(***************************************************************************)
\* the pretitle has a character that is neither a letter, a digit nor a space
BadTitle(a) == \E i \in 1..Len(a.pretitle) : a.pretitle[i] \in {"!", "_"}

\* a length-limited field other than the slogan is given with one character
TooShort(a) ==
    \E n \in SettingNames \ {"slogan"} : a[n] # <<>> /\ Len(a[n]) < 2

\* C27: change_nation_settings() with a pretitle that has a character other
\* than letters, digits and spaces, or with a field other than the slogan
\* that is given and shorter than 2 characters, ends with a validation
\* error before any request is made.
C27_BadFieldIsRefused ==
    [][(Calls(1) /\ op'[1] = "change_nation_settings"
           /\ (BadTitle(arg'[1]) \/ TooShort(arg'[1])))
          => (pc'[1] = "idle" /\ outcome'[1] = "ValueError")]_vars

(***************************************************************************)
(* The URLs of other hosts.                                                *)
(***************************************************************************)
\* the host of the URL is the site
OnSite(url) ==
    Len(url) >= 3 /\ url[1] = "https://www." /\ url[2] = "nationstates"
        /\ url[3] = ".net/"

\* C28: a request to a URL of another host that names neither a disallowed
\* page nor the API is passed through: it does not take the HTML path, so
\* it takes no lock, waits for no key and gets no chk, localid or userclick,
\* also when the text of the URL has the name of the site in it.
C28_OtherHostIsExternal ==
    [][(pc[1] = "request" /\ pc'[1] # "request" /\ ~OnSite(arg[1])
           /\ ~Disallowed(arg[1]) /\ ~In("api.cgi", arg[1]))
          => /\ pc'[1] = "returned"
             /\ extSent' = extSent + 1
             /\ data'[1] = data[1]
             /\ userclick'[1] = 0
             /\ lock' = lock]_vars

\* C29: request() with the URL of the API, on a page that is not
\* disallowed, sends a request of the API instead of refusing the call.
C29_ApiUrlIsRouted ==
    [][(pc[1] = "request" /\ pc'[1] # "request" /\ OnSite(arg[1])
           /\ In("api.cgi", arg[1]) /\ ~Disallowed(arg[1]))
          => (apiSent' = apiSent + 1 /\ outcome'[1] # "ValueError")]_vars

(***************************************************************************)
(* The responses with an error status.                                     *)
(***************************************************************************)
\* C30: when the response has a status of 400 or more, the request ends
\* with HTTPError: the page has been saved, no response is kept for the
\* operation, and chk, localid, pin, nation and region are as before; a
\* response that is returned has a status below 400.
C30_ErrorStatusIsSavedAndRaised ==
    [][/\ (pc[1] = "sent" /\ outcome'[1] = "HTTPError") =>
             /\ errorSaved'
             /\ pc'[1] = "idle"
             /\ resp'[1] = NoResp
             /\ UNCHANGED <<chk, localid, pin, nation, region>>
       /\ (pc[1] = "sent" /\ pc'[1] = "unlock" /\ stage[1] = 1) =>
             resp'[1].status < 400
       /\ (pc[1] = "sent" /\ ~errorSaved /\ errorSaved') =>
             outcome'[1] = "HTTPError"]_vars

\* the second request of the session has ended with HTTPError and its page
\* was saved; the store holds the chk of the first response
C30_Witness ==
    /\ outcome[1] = "HTTPError"
    /\ pc[1] = "idle"
    /\ errorSaved
    /\ htmlSent = 2
    /\ chk = <<"c", "1">>

\* a response of the API is handled: by api_request(), or by api_command()
ApiResponds ==
    \/ \E t \in Callers : pc[t] = "command" /\ cmd'.replies # cmd.replies
    \/ /\ apiSent' = apiSent + 1
       /\ \A t \in Callers : pc[t] # "new" /\ pc'[t] # "command"

\* C31: on the structured-API path the rate limiter runs on every response
\* before the status is checked: a response with a non-success status is
\* slept on as its headers ask (Retry-After first, then the paced sleep
\* when requests are left and fewer than 10 or force is set), and the call
\* ends in an error, never in a parsed mapping; a command does not go on
\* to its second request.
C31_LimiterBeforeStatus ==
    [][(ApiResponds /\ raise_for_status(api'.status)) =>
          LET head == api'.head
              remaining == int(head["RateLimit-Remaining"])
              reset == int(head["RateLimit-Reset"])
              sleeps == api'.sleeps
          IN  /\ api'.outcome # "ok"
              /\ Has(head, "Retry-After") =>
                    /\ sleeps # <<>>
                    /\ sleeps[1] = Seconds(int(head["Retry-After"]), 1)
              /\ (remaining >= 1 /\ (remaining < 10 \/ api'.force)) =>
                    /\ sleeps # <<>>
                    /\ sleeps[Len(sleeps)] = Seconds(reset, remaining)
              /\ cmd' # cmd =>
                    /\ cmd'.outcome \notin {"ok", "none"}
                    /\ cmd'.result = NoCmd.result
                    /\ apiSent' = apiSent]_vars

\* a command was answered 429 with Retry-After: 5 and 5 requests left of a
\* window of 10 s: 5 s and 2 s were slept and HTTPStatusError was raised
C31_Witness ==
    /\ cmd.replies # <<>>
    /\ api.status = 429
    /\ api.sleeps = <<Seconds(5, 1), Seconds(10, 5)>>
    /\ api.outcome = "HTTPStatusError"
    /\ cmd.outcome = "HTTPStatusError"
    /\ Len(cmd.sent) = 1

\* api_request() is called: it refuses its arguments or sends its request
ApiCalled ==
    /\ api'.impl = "nsdotpy"
    /\ api'.asked # NoCall
    /\ \/ api'.asked # api.asked
       \/ api'.outcome # api.outcome
       \/ apiSent' # apiSent

\* the shards that a call asks for, and the shards that an API permits
Requested(a) == IF empty(a.shard) THEN {} ELSE a.shard.names
Permitted(kind) ==
    CASE kind = "nation" -> NATION_SHARDS \cup PRIVATE_NATION_SHARDS
      [] kind = "region" -> REGION_SHARDS
      [] kind = "world" -> WORLD_SHARDS
      [] kind = "wa" -> WA_SHARDS
      [] OTHER -> {}

\* the arguments that the validation is to refuse
BadCall(a) ==
    \/ a.api \notin {"nation", "region", "world", "wa"}
    \/ a.api # "world" /\ a.target = <<>>
    \/ a.api \in {"world", "wa"} /\ empty(a.shard)
    \/ \E shard \in Requested(a) : shard \notin Permitted(a.api)

\* C32: api_request() raises ValueError, sends nothing, sets no credential
\* header and sleeps not at all when the category is none of nation,
\* region, world and wa, when a category other than world has no target,
\* when world or wa has no shard, or when one of the requested shards,
\* whichever, is not permitted for the category.
C32_BadCallIsRefused ==
    [][(ApiCalled /\ BadCall(api'.asked)) =>
          /\ api'.outcome = "ValueError"
          /\ apiSent' = apiSent
          /\ api'.params = NoParams
          /\ agent' = agent
          /\ api'.sleeps = <<>>
          /\ pin' = pin]_vars

\* the shards name and bogus were asked of a nation, with a password: the
\* call was refused, nothing was sent and no header was set
C32_Witness ==
    /\ api.asked = [api |-> "nation", target |-> <<"t", "l">>,
                    shard |-> SetOf({"name", "bogus"}),
                    password |-> "hunter2", constant_rate_limit |-> FALSE]
    /\ api.outcome = "ValueError"
    /\ apiSent = 0
    /\ agent.xpassword = ""
    /\ agent.creds = {}

\* C33: api_request() for a nation or a region, with a target and without
\* a shard, passes the validation and sends a request whose data has the
\* protocol version and the target and no q field.
C33_NoShardIsAccepted ==
    [][(/\ ApiCalled
        /\ api'.asked.api \in {"nation", "region"}
        /\ api'.asked.target # <<>>
        /\ empty(api'.asked.shard)) =>
          /\ api'.outcome # "ValueError"
          /\ apiSent' = apiSent + 1
          /\ api'.params.keys = {"v", api'.asked.api}
          /\ api'.params.v = "12"
          /\ api'.params.target = api'.asked.target]_vars

\* C34: api_command() called with mode prepare, or with mode execute, sends
\* one request, which carries that mode, and returns the nation element of
\* the response to that request; it sends no second request.
C34_OneModeOneRequest ==
    cmd.asked \in {"prepare", "execute"} =>
        /\ Len(cmd.sent) <= 1
        /\ Len(cmd.replies) <= Len(cmd.sent)
        /\ cmd.sent # <<>> => cmd.sent[1]["mode"] = cmd.asked
        /\ cmd.outcome = "none" => (cmd.replies = <<>> /\ Len(cmd.sent) = 1)
        /\ cmd.outcome = "ok" =>
              /\ Len(cmd.sent) = 1
              /\ Len(cmd.replies) = 1
              /\ cmd.result = cmd.replies[1]["nation"]

\* a command was prepared and only prepared: one request, marked prepare,
\* and the token of its response returned
C34_Witness ==
    /\ cmd.asked = "prepare"
    /\ cmd.outcome = "ok"
    /\ Len(cmd.sent) = 1
    /\ cmd.sent[1]["mode"] = "prepare"
    /\ cmd.result = [success |-> "t1"]

\* the first request of a command without a mode is answered with a
\* success status and a token
Prepared(t) ==
    /\ pc[t] = "command"
    /\ cmd.asked = ""
    /\ Len(cmd.sent) = 1
    /\ Len(cmd'.replies) = 1
    /\ api'.outcome = "ok"
    /\ "nation" \in DOMAIN cmd'.replies[1]
    /\ "success" \in DOMAIN cmd'.replies[1]["nation"]

\* C35: a command without a mode that was given a password (the client has
\* it as its X-Password header), in a session that has no pin before the
\* call and gets none from the response to the prepare request, sends its
\* execute request once the preparation has succeeded; it raises no error
\* of its own between the two requests.
C35_PasswordAloneChains ==
    [][\A t \in Callers :
          (Prepared(t) /\ agent.xpassword # "" /\ pin = "" /\ pin' = "") =>
              /\ Len(cmd'.sent) = 2
              /\ cmd'.outcome # "ValueError"
              /\ apiSent' = apiSent + 1]_vars

\* C36: a password given to a structured-API call is sent on requests of
\* the API only: no request of the HTML protocol and no request to another
\* host has carried a password or a pin as a credential header.
C36_CredentialsGoToApiOnly ==
    \A c \in agent.creds :
        c.to # "api" => (c.password = "" /\ c.pin = "")

\* the name is empty or in its canonical form
Canonical(name) == name = <<>> \/ canonicalize(name) = name

\* C37: whatever operations of the HTML protocol have run, the nation and
\* the region of the session are each empty or in canonical form (lower
\* case, trimmed, underscores for spaces).
C37_NamesAreCanonical == Canonical(nation) /\ Canonical(region)

\* C38: an operation that refreshes the token store (join_wa,
\* change_nation_flag, refound_nation, add_to_dossier) starts the request
\* of its refresh with the lock free, its first request having released
\* it; the only simultaneity violation it raises is that of its first
\* request, when the lock was held as it was called; and when it returns
\* a result the lock is free.
C38_RefreshStartsUnlocked ==
    \A t \in Callers :
        op[t] \in TwoRequestOps =>
            /\ (stage[t] = 2 /\ pc[t] \in {"request", "passed"}) => ~lock
            /\ outcome[t] = "PermissionError" => stage[t] = 1
            /\ (pc[t] = "idle" /\ outcome[t] \in {"true", "false"}) => ~lock

\* join_wa has sent its request and the request of its refresh, and has
\* returned True with the lock free
C38_Witness ==
    /\ op[1] = "join_wa"
    /\ stage[1] = 2
    /\ pc[1] = "idle"
    /\ outcome[1] = "true"
    /\ htmlSent = 2
    /\ ~lock

\* a step of the structured-API path, and a request passed through to
\* another host
ApiStep == apiSent' # apiSent \/ cmd' # cmd \/ ApiCalled
ExternalStep == extSent' # extSent

\* C39: a structured-API call and a request to another host do not wait
\* for the key, do not touch the lock and leave chk, localid, the nation
\* and the region as they are; a request to another host leaves the pin
\* too, and a structured-API call changes the pin only to the X-Pin of
\* its response.
C39_OtherPathsLeaveTheSessionAlone ==
    [][(ApiStep \/ ExternalStep) =>
          /\ UNCHANGED <<lock, chk, localid, nation, region>>
          /\ UNCHANGED <<gate, userclick, keyboardVars, htmlSent>>
          /\ \A t \in Callers :
                pc'[t] \in {pc[t], "idle", "returned", "command"}
          /\ ExternalStep => pin' = pin
          /\ pin' # pin =>
                /\ Has(api'.head, "X-Pin")
                /\ pin' = api'.head["X-Pin"]]_vars

\* with the tokens of a page in the store and the pin of a request of the
\* API, a request went to another host and a command was answered without
\* X-Pin: the tokens and the pin are as they were
C39_Witness ==
    /\ chk = <<"c", "1">>
    /\ localid = <<"l", "1">>
    /\ pin = "pin2"
    /\ extSent = 1
    /\ cmd.outcome = "ok"
    /\ ~Has(api.head, "X-Pin")
    /\ ~lock

====
